---- MODULE Spec2Model ----
(***************************************************************************)
(* Model of the Maiyuri Bricks CAD engine: the room layout solver          *)
(* (backend/main.py, RoomLayoutCalculator), the request handler            *)
(* render_engineering_plan, and the dimension formatter and staircase      *)
(* symbol generator of backend/cad_engine.py.                              *)
(*                                                                         *)
(* Lengths of the solver are integers in half feet (Ft(n) is n feet):      *)
(* every length the solver computes from whole-foot inputs is a multiple   *)
(* of half a foot (the courtyard centre (plot - room)/2 and the scan step  *)
(* depth/2).                                                               *)
(***************************************************************************)
EXTENDS Integers, Sequences, FiniteSets, TLC

\* ------------------------------------------------------------------------
\* Bounds of the model
\* ------------------------------------------------------------------------
MaxRooms == 3

\* invocations of the handler on one plan
MaxCalls == 2

\* the days datetime.now() may fall on are 0..MaxDay
MaxDay == 1

\* the formatter is run on the lengths 0 .. MaxFeetNum / FeetDen feet
MaxFeetNum == 105000

\* emitter calls made on one EngineeringCadGenerator
MaxCadCalls == 3

\* ------------------------------------------------------------------------
\* Units and small helpers
\* ------------------------------------------------------------------------
Ft(n) == 2 * n

Max(a, b) == IF a >= b THEN a ELSE b

Min(a, b) == IF a <= b THEN a ELSE b

Abs(a) == IF a >= 0 THEN a ELSE 0 - a

\* Python None
None == <<"None">>

\* an empty dict
EmptyMap == [k \in {} |-> 0]

\* d[k] = v on a dict
Put(d, k, v) == [x \in (DOMAIN d) \cup {k} |-> IF x = k THEN v ELSE d[x]]

\* ------------------------------------------------------------------------
\* Room types: str.replace('-', '') on the type vocabulary
\* ------------------------------------------------------------------------
StripHyphen(t) ==
    CASE t = "living-room" -> "livingroom"
      [] t = "double-bedroom" -> "doublebedroom"
      [] t = "master-bedroom" -> "masterbedroom"
      [] t = "common-toilet" -> "commontoilet"
      [] t = "attached-bathroom" -> "attachedbathroom"
      [] t = "common-bathroom" -> "commonbathroom"
      [] t = "servant-room" -> "servantroom"
      [] OTHER -> t

\* _find_room_by_type: index of the first room of the type, 0 for None
RECURSIVE FindFrom(_, _, _)
FindFrom(rooms, room_type, i) ==
    IF i > Len(rooms) THEN 0
    ELSE IF rooms[i].type = room_type
            \/ StripHyphen(rooms[i].type) = StripHyphen(room_type)
         THEN i
         ELSE FindFrom(rooms, room_type, i + 1)

FindRoomByType(rooms, room_type) == FindFrom(rooms, room_type, 1)

\* a or b on two Optional[RoomSpec] (indices)
OrElse(a, b) == IF a # 0 THEN a ELSE b

\* room_by_id = {r.id: r for r in rooms}: the last room of an id wins
RECURSIVE LastIndexOf(_, _, _)
LastIndexOf(rooms, id, i) ==
    IF i = 0 THEN 0
    ELSE IF rooms[i].id = id THEN i ELSE LastIndexOf(rooms, id, i - 1)

RoomById(rooms, id) == LastIndexOf(rooms, id, Len(rooms))

RoomIds(rooms) == {rooms[i].id : i \in 1..Len(rooms)}

\* ------------------------------------------------------------------------
\* _build_adjacency_graph: dict id -> list of ids, made bidirectional
\* ------------------------------------------------------------------------
InSeq(x, s) == \E i \in 1..Len(s) : s[i] = x

\* fault injection: the reverse edge appended without the membership test
AddReverseEdge_Always(graph, room_id, adj_id) ==
    LET g1 == IF adj_id \in DOMAIN graph THEN graph ELSE Put(graph, adj_id, <<>>)
    IN  Put(g1, adj_id, Append(g1[adj_id], room_id))

\* one iteration of the inner loop: the reverse edge adj_id -> room_id
AddReverseEdge(graph, room_id, adj_id) ==
    LET g1 == IF adj_id \in DOMAIN graph THEN graph ELSE Put(graph, adj_id, <<>>)
    IN  IF InSeq(room_id, g1[adj_id]) THEN g1
        ELSE Put(g1, adj_id, Append(g1[adj_id], room_id))

RECURSIVE GraphInner(_, _, _, _)
GraphInner(graph, room, adj, j) ==
    IF j > Len(adj) THEN graph
    ELSE GraphInner(AddReverseEdge(graph, room.id, adj[j]), room, adj, j + 1)

RECURSIVE GraphOuter(_, _, _)
GraphOuter(graph, rooms, i) ==
    IF i > Len(rooms) THEN graph
    ELSE GraphOuter(GraphInner(graph, rooms[i], rooms[i].adjacent_to, 1), rooms, i + 1)

BuildAdjacencyGraph(rooms) ==
    LET graph == [id \in RoomIds(rooms) |-> rooms[RoomById(rooms, id)].adjacent_to]
    IN  GraphOuter(graph, rooms, 1)

\* adjacency_graph.get(rid, [])
GraphGet(graph, rid) == IF rid \in DOMAIN graph THEN graph[rid] ELSE <<>>

\* ------------------------------------------------------------------------
\* The calculator object: plot, road side, positions (an insertion-ordered
\* dict: pos maps an id to <<x, y>>, order lists the keys in insertion
\* order) and placed_rooms (id -> index of the room in the room list)
\* ------------------------------------------------------------------------
NewCalculator(plot_width, plot_depth, road_side) ==
    [plot_width |-> plot_width, plot_depth |-> plot_depth, road_side |-> road_side,
     pos |-> EmptyMap, order |-> <<>>, placed_rooms |-> EmptyMap]

\* self.positions[id] = p
SetPosition(calc, id, p) ==
    [calc EXCEPT !.pos = Put(calc.pos, id, p),
                 !.order = IF id \in DOMAIN calc.pos THEN @ ELSE Append(@, id)]

\* fault injection: the room is not recorded as placed
SetPlaced_Forgets(calc, id, ri) == calc

\* self.placed_rooms[id] = room
SetPlaced(calc, id, ri) == [calc EXCEPT !.placed_rooms = Put(@, id, ri)]

\* the rectangle overlap test used by every collision check
RectsOverlap(x, y, w, d, px, py, pw, pd) ==
    /\ x < px + pw
    /\ x + w > px
    /\ y < py + pd
    /\ y + d > py

InPlot(calc, x, y, w, d) ==
    /\ x >= 0
    /\ y >= 0
    /\ x + w <= calc.plot_width
    /\ y + d <= calc.plot_depth

\* fault injection: a collision check that finds nothing
FirstCollision_Never(calc, rooms, skip, x, y, w, d, k) == 0

\* first key of positions, in insertion order and outside skip, whose placed
\* room overlaps the rectangle; 0 when there is none
RECURSIVE FirstCollision(_, _, _, _, _, _, _, _)
FirstCollision(calc, rooms, skip, x, y, w, d, k) ==
    IF k > Len(calc.order) THEN 0
    ELSE LET pid == calc.order[k]
         IN  IF /\ pid \notin skip
                /\ pid \in DOMAIN calc.placed_rooms
                /\ RectsOverlap(x, y, w, d, calc.pos[pid][1], calc.pos[pid][2],
                                rooms[calc.placed_rooms[pid]].width,
                                rooms[calc.placed_rooms[pid]].depth)
             THEN k
             ELSE FirstCollision(calc, rooms, skip, x, y, w, d, k + 1)

\* fault injection: the four touching positions with West tried before East
Candidates_WestFirst(ax, ay, aw, ad, w, d) ==
    << <<ax - w, ay>>, <<ax + aw, ay>>, <<ax, ay + ad>>, <<ax, ay - d>> >>

\* the four touching positions of a w x d room around the anchor rectangle,
\* in the order East, West, North, South
Candidates(ax, ay, aw, ad, w, d) ==
    << <<ax + aw, ay>>, <<ax - w, ay>>, <<ax, ay + ad>>, <<ax, ay - d>> >>

\* fault injection: the first candidate inside the plot, no collision test
RECURSIVE FirstFit_NoCollisionTest(_, _, _, _, _, _, _)
FirstFit_NoCollisionTest(calc, rooms, skip, cands, w, d, n) ==
    IF n > Len(cands) THEN None
    ELSE IF InPlot(calc, cands[n][1], cands[n][2], w, d) THEN cands[n]
    ELSE FirstFit_NoCollisionTest(calc, rooms, skip, cands, w, d, n + 1)

RECURSIVE FirstFit(_, _, _, _, _, _, _)
FirstFit(calc, rooms, skip, cands, w, d, n) ==
    IF n > Len(cands) THEN None
    ELSE IF /\ InPlot(calc, cands[n][1], cands[n][2], w, d)
            /\ FirstCollision(calc, rooms, skip, cands[n][1], cands[n][2], w, d, 1) = 0
         THEN cands[n]
         ELSE FirstFit(calc, rooms, skip, cands, w, d, n + 1)

\* _find_adjacent_position_for(room, adjacent_to_id): ri is the room's index
FindAdjacentPositionFor(calc, rooms, ri, adjacent_to_id) ==
    IF adjacent_to_id \notin DOMAIN calc.pos THEN None
    ELSE IF adjacent_to_id \notin DOMAIN calc.placed_rooms THEN None
    ELSE LET adj_room == rooms[calc.placed_rooms[adjacent_to_id]]
             a == calc.pos[adjacent_to_id]
         IN  FirstFit(calc, rooms, {adjacent_to_id},
                      Candidates(a[1], a[2], adj_room.width, adj_room.depth,
                                 rooms[ri].width, rooms[ri].depth),
                      rooms[ri].width, rooms[ri].depth, 1)

\* fault injection: the search that falls back on the East side when no side
\* is free
FindAdjacentPosition_EastAnyway(calc, rooms, anchor_i, move_i) ==
    LET a == calc.pos[rooms[anchor_i].id]
        cands == Candidates(a[1], a[2], rooms[anchor_i].width, rooms[anchor_i].depth,
                            rooms[move_i].width, rooms[move_i].depth)
        fit == FirstFit(calc, rooms, {rooms[anchor_i].id, rooms[move_i].id}, cands,
                        rooms[move_i].width, rooms[move_i].depth, 1)
    IN  IF fit # None THEN fit ELSE cands[1]

\* _find_adjacent_position(anchor_room, room_to_move)
FindAdjacentPosition(calc, rooms, anchor_i, move_i) ==
    LET anchor_room == rooms[anchor_i]
        room_to_move == rooms[move_i]
        a == calc.pos[anchor_room.id]
    IN  FirstFit(calc, rooms, {anchor_room.id, room_to_move.id},
                 Candidates(a[1], a[2], anchor_room.width, anchor_room.depth,
                            room_to_move.width, room_to_move.depth),
                 room_to_move.width, room_to_move.depth, 1)

\* tolerance of _rooms_share_wall: 0.5 ft
Tolerance == 1

\* _rooms_share_wall
RoomsShareWall(x1, y1, w1, d1, x2, y2, w2, d2) ==
    \/ /\ \/ Abs((x1 + w1) - x2) <= Tolerance
          \/ Abs((x2 + w2) - x1) <= Tolerance
       /\ y1 < y2 + d2
       /\ y1 + d1 > y2
    \/ /\ \/ Abs((y1 + d1) - y2) <= Tolerance
          \/ Abs((y2 + d2) - y1) <= Tolerance
       /\ x1 < x2 + w2
       /\ x1 + w1 > x2

\* inner while loop of _place_in_available_space: the first free x of row y,
\* None when the row is exhausted
RECURSIVE ScanRow(_, _, _, _, _)
ScanRow(calc, rooms, ri, x, y) ==
    IF x + rooms[ri].width > calc.plot_width THEN None
    ELSE LET k == FirstCollision(calc, rooms, {}, x, y, rooms[ri].width, rooms[ri].depth, 1)
         IN  IF k = 0 THEN <<x, y>>
             ELSE LET pid == calc.order[k]
                      far == calc.pos[pid][1] + rooms[calc.placed_rooms[pid]].width
                  IN  ScanRow(calc, rooms, ri, far + Ft(1), y)

\* outer while loop: the first free cell, None when the plot is exhausted
RECURSIVE ScanPlot(_, _, _, _)
ScanPlot(calc, rooms, ri, y) ==
    IF y + rooms[ri].depth > calc.plot_depth THEN None
    ELSE LET p == ScanRow(calc, rooms, ri, 0, y)
         IN  IF p # None THEN p
             ELSE ScanPlot(calc, rooms, ri, y + Max(Ft(1), rooms[ri].depth \div 2))

\* fault injection: the fallback without its last resort, a room that fits
\* nowhere is left without a position
PlaceInAvailableSpace_NoLastResort(calc, rooms, ri) ==
    LET p == ScanPlot(calc, rooms, ri, 0)
    IN  IF p # None
        THEN SetPlaced(SetPosition(calc, rooms[ri].id, p), rooms[ri].id, ri)
        ELSE calc

\* _place_in_available_space(room)
PlaceInAvailableSpace(calc, rooms, ri) ==
    LET p == ScanPlot(calc, rooms, ri, 0)
        at == IF p # None THEN p ELSE <<0, 0>>
    IN  SetPlaced(SetPosition(calc, rooms[ri].id, at), rooms[ri].id, ri)

\* ------------------------------------------------------------------------
\* _place_courtyard_centric
\* ------------------------------------------------------------------------
\* max(0, min(v, limit)): the clamp of the toilet, the staircase and the
\* final validation
Clamp(v, limit) == Max(0, Min(v, limit))

\* step 1: the courtyard in the centre of the plot
CcCourtyard(calc, rooms, courtyard) ==
    LET center_x == (calc.plot_width - rooms[courtyard].width) \div 2
        center_y == (calc.plot_depth - rooms[courtyard].depth) \div 2
    IN  SetPlaced(SetPosition(calc, rooms[courtyard].id, <<center_x, center_y>>),
                  rooms[courtyard].id, courtyard)

\* the verandah at the entrance side
CcVerandah(calc, rooms, verandah) ==
    IF verandah = 0 THEN calc
    ELSE LET at == IF calc.road_side = "west" THEN <<0, 0>>
                   ELSE IF calc.road_side = "south" THEN <<0, 0>>
                   ELSE IF calc.road_side = "north"
                        THEN <<0, calc.plot_depth - rooms[verandah].depth>>
                   ELSE <<calc.plot_width - rooms[verandah].width, 0>>
         IN  SetPlaced(SetPosition(calc, rooms[verandah].id, at), rooms[verandah].id, verandah)

\* the living room adjacent to the verandah
CcLiving(calc, rooms, verandah, living) ==
    IF living = 0 \/ rooms[living].id \in DOMAIN calc.pos THEN calc
    ELSE LET at == IF verandah # 0 /\ rooms[verandah].id \in DOMAIN calc.pos
                   THEN LET v == calc.pos[rooms[verandah].id]
                        IN  IF calc.road_side \in {"west", "south"}
                            THEN <<v[1] + rooms[verandah].width, v[2]>>
                            ELSE <<v[1], v[2] + rooms[verandah].depth>>
                   ELSE <<0, 0>>
         IN  SetPlaced(SetPosition(calc, rooms[living].id, at), rooms[living].id, living)

\* the dining room to the right of the living room, or below it
CcDining(calc, rooms, living, dining) ==
    IF dining = 0 \/ rooms[dining].id \in DOMAIN calc.pos THEN calc
    ELSE LET c1 == IF living # 0 /\ rooms[living].id \in DOMAIN calc.pos
                   THEN LET l == calc.pos[rooms[living].id]
                            dx == l[1] + rooms[living].width
                        IN  IF dx + rooms[dining].width > calc.plot_width
                            THEN SetPosition(calc, rooms[dining].id,
                                             <<l[1], l[2] + rooms[living].depth>>)
                            ELSE SetPosition(calc, rooms[dining].id, <<dx, l[2]>>)
                   ELSE PlaceInAvailableSpace(calc, rooms, dining)
         IN  SetPlaced(c1, rooms[dining].id, dining)

\* the kitchen to the right of the dining room, or below it
CcKitchen(calc, rooms, dining, kitchen) ==
    IF kitchen = 0 \/ rooms[kitchen].id \in DOMAIN calc.pos THEN calc
    ELSE LET at == IF dining # 0 /\ rooms[dining].id \in DOMAIN calc.pos
                   THEN LET dp == calc.pos[rooms[dining].id]
                            kx == dp[1] + rooms[dining].width
                        IN  IF kx + rooms[kitchen].width > calc.plot_width
                            THEN <<dp[1], dp[2] + rooms[dining].depth>>
                            ELSE <<kx, dp[2]>>
                   ELSE <<calc.plot_width - rooms[kitchen].width, 0>>
         IN  SetPlaced(SetPosition(calc, rooms[kitchen].id, at), rooms[kitchen].id, kitchen)

\* the bedroom in a new row after the living room
CcBedroom(calc, rooms, living, bedroom) ==
    IF bedroom = 0 \/ rooms[bedroom].id \in DOMAIN calc.pos THEN calc
    ELSE LET at == IF living # 0 /\ rooms[living].id \in DOMAIN calc.pos
                   THEN LET l == calc.pos[rooms[living].id]
                        IN  <<l[1], l[2] + rooms[living].depth>>
                   ELSE <<0, calc.plot_depth - rooms[bedroom].depth>>
         IN  SetPlaced(SetPosition(calc, rooms[bedroom].id, at), rooms[bedroom].id, bedroom)

\* the toilet adjacent to the kitchen
CcToilet(calc, rooms, kitchen, toilet) ==
    IF toilet = 0 \/ rooms[toilet].id \in DOMAIN calc.pos THEN calc
    ELSE LET c1 == IF kitchen # 0 /\ rooms[kitchen].id \in DOMAIN calc.pos
                   THEN LET k == calc.pos[rooms[kitchen].id]
                            ty == k[2] + rooms[kitchen].depth
                            over == ty + rooms[toilet].depth > calc.plot_depth
                            tx == IF over THEN k[1] + rooms[kitchen].width ELSE k[1]
                            ty2 == IF over THEN k[2] ELSE ty
                        IN  SetPosition(calc, rooms[toilet].id,
                               <<Clamp(tx, calc.plot_width - rooms[toilet].width),
                                 Clamp(ty2, calc.plot_depth - rooms[toilet].depth)>>)
                   ELSE PlaceInAvailableSpace(calc, rooms, toilet)
         IN  SetPlaced(c1, rooms[toilet].id, toilet)

\* the staircase near the living room
CcStaircase(calc, rooms, living, staircase) ==
    IF staircase = 0 \/ rooms[staircase].id \in DOMAIN calc.pos THEN calc
    ELSE LET c1 == IF living # 0 /\ rooms[living].id \in DOMAIN calc.pos
                   THEN LET l == calc.pos[rooms[living].id]
                            sx0 == l[1] + rooms[living].width
                            sy == l[2] + rooms[living].depth
                            sx == IF sx0 + rooms[staircase].width > calc.plot_width
                                  THEN l[1] ELSE sx0
                        IN  SetPosition(calc, rooms[staircase].id,
                               <<Clamp(sx, calc.plot_width - rooms[staircase].width),
                                 Clamp(sy, calc.plot_depth - rooms[staircase].depth)>>)
                   ELSE PlaceInAvailableSpace(calc, rooms, staircase)
         IN  SetPlaced(c1, rooms[staircase].id, staircase)

\* "Place any remaining rooms" of the courtyard mode
RECURSIVE CcRemaining(_, _, _)
CcRemaining(calc, rooms, i) ==
    IF i > Len(rooms) THEN calc
    ELSE IF rooms[i].id \in DOMAIN calc.pos THEN CcRemaining(calc, rooms, i + 1)
    ELSE CcRemaining(PlaceInAvailableSpace(calc, rooms, i), rooms, i + 1)

\* the toilet looked up by both layouts
FindToilet(rooms) ==
    OrElse(FindRoomByType(rooms, "bathroom"),
           OrElse(FindRoomByType(rooms, "common-toilet"), FindRoomByType(rooms, "toilet")))

FindBedroom(rooms) ==
    OrElse(FindRoomByType(rooms, "bedroom"), FindRoomByType(rooms, "double-bedroom"))

PlaceCourtyardCentric(calc, rooms, courtyard, verandah, living) ==
    LET kitchen == FindRoomByType(rooms, "kitchen")
        bedroom == FindBedroom(rooms)
        dining == FindRoomByType(rooms, "dining")
        toilet == FindToilet(rooms)
        staircase == FindRoomByType(rooms, "staircase")
        c1 == CcCourtyard(calc, rooms, courtyard)
        c2 == CcVerandah(c1, rooms, verandah)
        c3 == CcLiving(c2, rooms, verandah, living)
        c4 == CcDining(c3, rooms, living, dining)
        c5 == CcKitchen(c4, rooms, dining, kitchen)
        c6 == CcBedroom(c5, rooms, living, bedroom)
        c7 == CcToilet(c6, rooms, kitchen, toilet)
        c8 == CcStaircase(c7, rooms, living, staircase)
    IN  CcRemaining(c8, rooms, 1)

\* ------------------------------------------------------------------------
\* _place_standard_layout: cur is [calc, x, y, h] with the cursor
\* current_x, current_y and row_height
\* ------------------------------------------------------------------------
\* a room put at the cursor, which advances by its width
AtCursor(cur, rooms, ri) ==
    [calc |-> SetPlaced(SetPosition(cur.calc, rooms[ri].id, <<cur.x, cur.y>>),
                        rooms[ri].id, ri),
     x |-> cur.x + rooms[ri].width,
     y |-> cur.y,
     h |-> Max(cur.h, rooms[ri].depth)]

StdVerandah(cur, rooms, verandah) ==
    IF verandah = 0 THEN cur ELSE AtCursor(cur, rooms, verandah)

\* also the kitchen, the row-2 dining room and the bedroom
StdAtCursorIfUnplaced(cur, rooms, ri) ==
    IF ri = 0 \/ rooms[ri].id \in DOMAIN cur.calc.pos THEN cur
    ELSE AtCursor(cur, rooms, ri)

\* row 1: the dining room only when it fits in the row
StdDiningRow1(cur, rooms, dining) ==
    IF dining = 0 \/ rooms[dining].id \in DOMAIN cur.calc.pos THEN cur
    ELSE LET fits == cur.x + rooms[dining].width <= cur.calc.plot_width
             c1 == IF fits THEN SetPosition(cur.calc, rooms[dining].id, <<cur.x, cur.y>>)
                   ELSE cur.calc
         IN  [calc |-> SetPlaced(c1, rooms[dining].id, dining),
              x |-> IF fits THEN cur.x + rooms[dining].width ELSE cur.x,
              y |-> cur.y,
              h |-> Max(cur.h, rooms[dining].depth)]

\* "Move to ROW 2": current_y = row_height
MoveToRow2(cur) == [cur EXCEPT !.x = 0, !.y = cur.h, !.h = 0]

\* "Move to ROW 3": current_y += row_height
MoveToRow3(cur) == [cur EXCEPT !.x = 0, !.y = cur.y + cur.h, !.h = 0]

\* row 2: the toilet in the row, or above the kitchen
StdToilet(cur, rooms, kitchen, toilet) ==
    IF toilet = 0 \/ rooms[toilet].id \in DOMAIN cur.calc.pos THEN cur
    ELSE LET fits == cur.x + rooms[toilet].width <= cur.calc.plot_width
             c1 == IF fits THEN SetPosition(cur.calc, rooms[toilet].id, <<cur.x, cur.y>>)
                   ELSE IF kitchen # 0 /\ rooms[kitchen].id \in DOMAIN cur.calc.pos
                        THEN LET k == cur.calc.pos[rooms[kitchen].id]
                             IN  SetPosition(cur.calc, rooms[toilet].id,
                                             <<k[1], k[2] + rooms[kitchen].depth>>)
                        ELSE cur.calc
         IN  [calc |-> SetPlaced(c1, rooms[toilet].id, toilet),
              x |-> IF fits THEN cur.x + rooms[toilet].width ELSE cur.x,
              y |-> cur.y,
              h |-> Max(cur.h, rooms[toilet].depth)]

\* row 2: the staircase in the row, or after the living room
StdStaircase(cur, rooms, living, staircase_room) ==
    IF staircase_room = 0 \/ rooms[staircase_room].id \in DOMAIN cur.calc.pos THEN cur
    ELSE LET fits == cur.x + rooms[staircase_room].width <= cur.calc.plot_width
             c1 == IF fits
                   THEN SetPosition(cur.calc, rooms[staircase_room].id, <<cur.x, cur.y>>)
                   ELSE IF living # 0 /\ rooms[living].id \in DOMAIN cur.calc.pos
                        THEN LET l == cur.calc.pos[rooms[living].id]
                             IN  SetPosition(cur.calc, rooms[staircase_room].id,
                                    <<l[1] + rooms[living].width - rooms[staircase_room].width,
                                      l[2] + rooms[living].depth>>)
                        ELSE cur.calc
         IN  [calc |-> SetPlaced(c1, rooms[staircase_room].id, staircase_room),
              x |-> IF fits THEN cur.x + rooms[staircase_room].width ELSE cur.x,
              y |-> cur.y,
              h |-> Max(cur.h, rooms[staircase_room].depth)]

\* the adjacency-directed attempt of a remaining room: the first declared
\* neighbour with a position that yields a touching position
RECURSIVE TryAdjacent(_, _, _, _)
TryAdjacent(calc, rooms, ri, j) ==
    IF j > Len(rooms[ri].adjacent_to) THEN None
    ELSE LET adj_id == rooms[ri].adjacent_to[j]
             new_pos == IF adj_id \in DOMAIN calc.pos
                        THEN FindAdjacentPositionFor(calc, rooms, ri, adj_id)
                        ELSE None
         IN  IF new_pos # None THEN new_pos ELSE TryAdjacent(calc, rooms, ri, j + 1)

\* "Place any remaining rooms that weren't handled above"
RECURSIVE StdRemaining(_, _, _)
StdRemaining(calc, rooms, i) ==
    IF i > Len(rooms) THEN calc
    ELSE IF rooms[i].id \in DOMAIN calc.pos THEN StdRemaining(calc, rooms, i + 1)
    ELSE LET new_pos == TryAdjacent(calc, rooms, i, 1)
             c1 == IF new_pos # None
                   THEN SetPlaced(SetPosition(calc, rooms[i].id, new_pos), rooms[i].id, i)
                   ELSE PlaceInAvailableSpace(calc, rooms, i)
         IN  StdRemaining(c1, rooms, i + 1)

\* the cursor after the three rows
StandardRows(calc, rooms, verandah, living) ==
    LET kitchen == FindRoomByType(rooms, "kitchen")
        bedroom == FindBedroom(rooms)
        dining == FindRoomByType(rooms, "dining")
        toilet == FindToilet(rooms)
        staircase_room == FindRoomByType(rooms, "staircase")
        r0 == [calc |-> calc, x |-> 0, y |-> 0, h |-> 0]
        r1 == StdVerandah(r0, rooms, verandah)
        r2 == StdAtCursorIfUnplaced(r1, rooms, living)
        r3 == StdDiningRow1(r2, rooms, dining)
        r4 == MoveToRow2(r3)
        r5 == StdAtCursorIfUnplaced(r4, rooms, dining)
        r6 == StdAtCursorIfUnplaced(r5, rooms, kitchen)
        r7 == StdToilet(r6, rooms, kitchen, toilet)
        r8 == StdStaircase(r7, rooms, living, staircase_room)
        r9 == MoveToRow3(r8)
    IN  StdAtCursorIfUnplaced(r9, rooms, bedroom)

PlaceStandardLayout(calc, rooms, verandah, living) ==
    StdRemaining(StandardRows(calc, rooms, verandah, living).calc, rooms, 1)

\* ------------------------------------------------------------------------
\* the placement phase of calculate_positions (lines 135-163)
\* ------------------------------------------------------------------------
FindCourtyard(rooms) ==
    OrElse(FindRoomByType(rooms, "courtyard"), FindRoomByType(rooms, "mutram"))

FindVerandah(rooms) ==
    OrElse(FindRoomByType(rooms, "verandah"), FindRoomByType(rooms, "veranda"))

FindLiving(rooms) ==
    OrElse(FindRoomByType(rooms, "living"), FindRoomByType(rooms, "living-room"))

\* fault injection: only placed_rooms is emptied on entry
ResetCalculator_KeepPositions(calc) == [calc EXCEPT !.placed_rooms = EmptyMap]

\* self.positions = {}; self.placed_rooms = {}
ResetCalculator(calc) == [calc EXCEPT !.pos = EmptyMap, !.order = <<>>, !.placed_rooms = EmptyMap]

PlaceRooms(calc, rooms) ==
    LET c0 == ResetCalculator(calc)
        courtyard == FindCourtyard(rooms)
        verandah == FindVerandah(rooms)
        living == FindLiving(rooms)
    IN  IF courtyard # 0
        THEN PlaceCourtyardCentric(c0, rooms, courtyard, verandah, living)
        ELSE PlaceStandardLayout(c0, rooms, verandah, living)

\* ------------------------------------------------------------------------
\* _enforce_adjacencies
\* ------------------------------------------------------------------------
Degree(graph, rid) == Len(GraphGet(graph, rid))

IndexOrders(n) == {g \in [1..n -> 1..n] : \A i, j \in 1..n : i # j => g[i] # g[j]}

\* fault injection: an unstable sort, rooms of equal degree in any order
SortedRoomIds_Unstable(rooms, graph) ==
    {[k \in 1..Len(rooms) |-> rooms[f[k]].id] : f \in
        {g \in IndexOrders(Len(rooms)) :
            \A a, b \in 1..Len(rooms) : a < b =>
                Degree(graph, rooms[g[a]].id) >= Degree(graph, rooms[g[b]].id)}}

\* fault injection: no sort, the rooms in input order
SortedRoomIds_InputOrder(rooms, graph) == {[k \in 1..Len(rooms) |-> rooms[k].id]}

\* sorted(ids, key=degree, reverse=True) is stable: descending degree, rooms
\* of equal degree in input order.  The set of the results sorted() can give.
SortedRoomIds(rooms, graph) ==
    {[k \in 1..Len(rooms) |-> rooms[f[k]].id] : f \in
        {g \in IndexOrders(Len(rooms)) :
            \A a, b \in 1..Len(rooms) : a < b =>
                \/ Degree(graph, rooms[g[a]].id) > Degree(graph, rooms[g[b]].id)
                \/ /\ Degree(graph, rooms[g[a]].id) = Degree(graph, rooms[g[b]].id)
                   /\ g[a] < g[b]}}

\* fault injection: an enforcement pass that moves the visited room to its
\* neighbour
EnforceNeighbour_MovesVisited(calc, rooms, room_i, snap, adj_id) ==
    IF adj_id \notin DOMAIN calc.pos \/ RoomById(rooms, adj_id) = 0 THEN calc
    ELSE LET adj_i == RoomById(rooms, adj_id)
             a == calc.pos[adj_id]
             shares_wall ==
                 RoomsShareWall(snap[1], snap[2],
                                rooms[room_i].width, rooms[room_i].depth,
                                a[1], a[2], rooms[adj_i].width, rooms[adj_i].depth)
             new_pos == FindAdjacentPosition(calc, rooms, adj_i, room_i)
         IN  IF shares_wall \/ new_pos = None THEN calc
             ELSE SetPosition(calc, rooms[room_i].id, new_pos)

\* fault injection: an enforcement pass that never moves a neighbour
EnforceNeighbour_NeverMoves(calc, rooms, room_i, snap, adj_id) == calc

\* the body of the inner loop for one neighbour: snap is the (x, y) of the
\* visited room read at the start of its visit
EnforceNeighbour(calc, rooms, room_i, snap, adj_id) ==
    IF adj_id \notin DOMAIN calc.pos THEN calc
    ELSE LET adj_i == RoomById(rooms, adj_id)
         IN  IF adj_i = 0 THEN calc
             ELSE LET a == calc.pos[adj_id]
                      shares_wall ==
                          RoomsShareWall(snap[1], snap[2],
                                         rooms[room_i].width, rooms[room_i].depth,
                                         a[1], a[2],
                                         rooms[adj_i].width, rooms[adj_i].depth)
                      new_pos == FindAdjacentPosition(calc, rooms, room_i, adj_i)
                  IN  IF shares_wall THEN calc
                      ELSE IF new_pos # None THEN SetPosition(calc, adj_id, new_pos)
                      ELSE calc

RECURSIVE EnforceNeighbours(_, _, _, _, _, _)
EnforceNeighbours(calc, rooms, room_i, snap, adjacent_ids, j) ==
    IF j > Len(adjacent_ids) THEN calc
    ELSE EnforceNeighbours(EnforceNeighbour(calc, rooms, room_i, snap, adjacent_ids[j]),
                           rooms, room_i, snap, adjacent_ids, j + 1)

\* the visit of one room of the outer loop
EnforceRoom(calc, rooms, graph, room_id) ==
    IF room_id \notin DOMAIN calc.pos THEN calc
    ELSE IF RoomById(rooms, room_id) = 0 THEN calc
    ELSE EnforceNeighbours(calc, rooms, RoomById(rooms, room_id), calc.pos[room_id],
                           GraphGet(graph, room_id), 1)

RECURSIVE EnforceFrom(_, _, _, _, _)
EnforceFrom(calc, rooms, graph, room_ids, i) ==
    IF i > Len(room_ids) THEN calc
    ELSE EnforceFrom(EnforceRoom(calc, rooms, graph, room_ids[i]), rooms, graph, room_ids, i + 1)

\* ------------------------------------------------------------------------
\* _validate_and_adjust
\* ------------------------------------------------------------------------
RECURSIVE ValidateAndAdjust(_, _, _)
ValidateAndAdjust(calc, rooms, i) ==
    IF i > Len(rooms) THEN calc
    ELSE IF rooms[i].id \notin DOMAIN calc.pos THEN ValidateAndAdjust(calc, rooms, i + 1)
    ELSE LET p == calc.pos[rooms[i].id]
             x == Clamp(p[1], calc.plot_width - rooms[i].width)
             y == Clamp(p[2], calc.plot_depth - rooms[i].depth)
         IN  ValidateAndAdjust(SetPosition(calc, rooms[i].id, <<x, y>>), rooms, i + 1)

\* the (room, neighbour) pair the enforcement pass handles next, from the
\* pair (i, j) on: rooms without a position and exhausted neighbour lists
\* are passed over.  i = Len(room_ids) + 1 at the end of the pass.
RECURSIVE NextPair(_, _, _, _, _, _)
NextPair(calc, rooms, graph, room_ids, i, j) ==
    IF i > Len(room_ids) THEN <<i, 0>>
    ELSE IF \/ room_ids[i] \notin DOMAIN calc.pos
            \/ RoomById(rooms, room_ids[i]) = 0
            \/ j > Len(GraphGet(graph, room_ids[i]))
         THEN NextPair(calc, rooms, graph, room_ids, i + 1, 1)
         ELSE <<i, j>>

\* ------------------------------------------------------------------------
\* Requests: the plans the model submits
\* ------------------------------------------------------------------------
Room(id, type, width, depth, adjacent_to) ==
    [id |-> id, type |-> type, width |-> Ft(width), depth |-> Ft(depth),
     adjacent_to |-> adjacent_to]

Catalogue ==
    << Room("living", "living", 15, 12, <<"kitchen", "dining">>),
       Room("kitchen", "kitchen", 10, 8, <<"living">>),
       Room("dining", "dining", 10, 8, <<"living", "kitchen">>),
       Room("verandah", "verandah", 20, 6, <<"living">>),
       Room("toilet", "toilet", 6, 5, <<"bedroom">>),
       Room("bedroom", "bedroom", 12, 10, <<"bedroom", "toilet">>),
       Room("courtyard", "courtyard", 10, 10, <<"living">>),
       Room("staircase", "staircase", 8, 10, <<>>),
       Room("pooja", "pooja", 16, 6, <<"courtyard", "garden">>),
       Room("store", "store", 0, 5, <<>>) >>

Plots == {<<Ft(30), Ft(40)>>, <<Ft(40), Ft(50)>>, <<Ft(15), Ft(40)>>}

RoadSides == {"south", "north", "east", "west"}

SetMin(S) == CHOOSE m \in S : \A n \in S : m <= n

RECURSIVE Ascending(_)
Ascending(S) == IF S = {} THEN <<>> ELSE <<SetMin(S)>> \o Ascending(S \ {SetMin(S)})

Reverse(s) == [k \in 1..Len(s) |-> s[Len(s) + 1 - k]]

\* the rooms of a selection of the catalogue, with or without their
\* adjacent_to declarations
RoomsOf(sel, declared) ==
    [k \in 1..Len(sel) |->
        IF declared THEN Catalogue[sel[k]]
        ELSE [Catalogue[sel[k]] EXCEPT !.adjacent_to = <<>>]]

RoomLists ==
    LET Selections == {T \in SUBSET (1..Len(Catalogue)) :
                          Cardinality(T) >= 1 /\ Cardinality(T) <= MaxRooms}
    IN  {RoomsOf(Ascending(S), declared) : S \in Selections, declared \in BOOLEAN}
        \cup {RoomsOf(Reverse(Ascending(S)), TRUE) : S \in Selections}

\* road_side is read by the courtyard-centric layout only, where it decides
\* the places of the verandah and of the living room beside it: the plans
\* without a courtyard or without a verandah come with the default road side
Plans ==
    {p \in {[plot_width |-> pl[1], plot_depth |-> pl[2], road_side |-> rs, rooms |-> rl] :
                pl \in Plots, rs \in RoadSides, rl \in RoomLists} :
        \/ p.road_side = "south"
        \/ FindCourtyard(p.rooms) # 0 /\ FindVerandah(p.rooms) # 0}

\* ------------------------------------------------------------------------
\* calculate_positions as one call: the calculator after the call, whose pos
\* is the map returned
\* ------------------------------------------------------------------------
CalculatePositions(calc, rooms) ==
    LET c1 == PlaceRooms(calc, rooms)
        adjacency_graph == BuildAdjacencyGraph(rooms)
        room_ids == CHOOSE ids \in SortedRoomIds(rooms, adjacency_graph) : TRUE
        c2 == EnforceFrom(c1, rooms, adjacency_graph, room_ids, 1)
    IN  ValidateAndAdjust(c2, rooms, 1)

\* ------------------------------------------------------------------------
\* _feet_to_indian_format on the length num/den feet (num >= 0, den > 0):
\* <<F, I>> stands for the string F'-I"
\* ------------------------------------------------------------------------
\* Python round() of p/q: to the nearest integer, ties to the even one
RoundHalfEven(p, q) ==
    LET fl == p \div q
        r == p - fl * q
    IN  IF 2 * r < q THEN fl
        ELSE IF 2 * r > q THEN fl + 1
        ELSE IF fl % 2 = 0 THEN fl ELSE fl + 1

\* the grid of the lengths formatted: 1/10000 ft
FeetDen == 10000

\* fault injection: the formatter without the carry of 12 inches
FeetToIndianFormat_NoCarry(num, den) ==
    LET whole_feet == num \div den
        inches == RoundHalfEven((num - whole_feet * den) * 12, den)
    IN  <<whole_feet, inches>>

\* _feet_to_indian_format(feet) for feet = num/den: (F, I) of F'-I"
FeetToIndianFormat(num, den) ==
    LET whole_feet == num \div den
        inches == RoundHalfEven((num - whole_feet * den) * 12, den)
    IN  IF inches = 12 THEN <<whole_feet + 1, 0>> ELSE <<whole_feet, inches>>

\* ------------------------------------------------------------------------
\* The drawing of render_engineering_plan.  The scene is the sequence of the
\* emitter calls made on the EngineeringCadGenerator, each with the arguments
\* it resolved: the primitives a call draws are a function of them.
\* geom holds the numbers (half feet), text the strings.
\* ------------------------------------------------------------------------
Call(op, ref, side, geom, text) ==
    [op |-> op, ref |-> ref, side |-> side, geom |-> geom, text |-> text]

Opt(cond, entry) == IF cond THEN <<entry>> ELSE <<>>

\* positions.get(room_spec.id, (0, 0))
OriginOf(pos, id) == IF id \in DOMAIN pos THEN pos[id] ELSE <<0, 0>>

\* the first loop: add_room_with_walls of every room; is_external is the edge
\* test of lines 934-939
RoomCall(p, pos, room) ==
    LET origin == OriginOf(pos, room.id)
        is_external == \/ origin[1] = 0
                       \/ origin[2] = 0
                       \/ origin[1] + room.width >= p.plot_width - Ft(1)
                       \/ origin[2] + room.depth >= p.plot_depth - Ft(1)
    IN  Call("add_room_with_walls", room.id, "",
             <<origin[1], origin[2], room.width, room.depth>>,
             <<IF is_external THEN "external" ELSE "internal">>)

\* cad.room_positions after the first loop: id -> (x, y, width, depth)
RECURSIVE RoomPositions(_, _, _, _)
RoomPositions(p, pos, rp, i) ==
    IF i > Len(p.rooms) THEN rp
    ELSE LET room == p.rooms[i]
             origin == OriginOf(pos, room.id)
         IN  RoomPositions(p, pos,
                           Put(rp, room.id, <<origin[1], origin[2], room.width, room.depth>>),
                           i + 1)

\* fault injection: an opening drawn at a default rectangle for a room the
\* emitter does not know
AddOpening_Defaulted(op, rp, room_id, wall, width) ==
    LET r == IF room_id \in DOMAIN rp THEN rp[room_id] ELSE <<0, 0, 0, 0>>
    IN  <<Call(op, room_id, wall, <<r[1], r[2], r[3], r[4], width>>, <<>>)>>

\* add_door / add_window: nothing for a room the emitter does not know
AddOpening(op, rp, room_id, wall, width) ==
    Opt(room_id \in DOMAIN rp,
        Call(op, room_id, wall,
             <<rp[room_id][1], rp[room_id][2], rp[room_id][3], rp[room_id][4], width>>,
             <<>>))

BedroomTypes == {"bedroom", "master-bedroom"}

LivingTypes == {"living", "living-room"}

BathroomTypes == {"bathroom", "attached-bathroom", "common-bathroom", "attached-bath"}

\* the doors and windows of one room (lines 951-1013); widths in half feet
OpeningCalls(p, pos, rp, room) ==
    IF room.id \notin DOMAIN pos THEN <<>>
    ELSE LET origin == pos[room.id]
             is_south_external == origin[2] <= 1
             is_north_external == origin[2] + room.depth >= p.plot_depth - 1
             is_west_external == origin[1] <= 1
             is_east_external == origin[1] + room.width >= p.plot_width - 1
             t == room.type
         IN  (IF t \in LivingTypes /\ is_south_external
              THEN AddOpening("add_door", rp, room.id, "south", 7) ELSE <<>>)
          \o (IF t \in BedroomTypes
              THEN IF is_north_external THEN AddOpening("add_door", rp, room.id, "south", 6)
                   ELSE IF is_south_external
                        THEN AddOpening("add_door", rp, room.id, "north", 6)
                   ELSE AddOpening("add_door", rp, room.id, "south", 6)
              ELSE <<>>)
          \o (IF t = "kitchen" THEN AddOpening("add_door", rp, room.id, "west", 6) ELSE <<>>)
          \o (IF t \in BathroomTypes
              THEN AddOpening("add_door", rp, room.id, "south", 5) ELSE <<>>)
          \o (IF t \in LivingTypes \cup BedroomTypes \cup {"dining"}
              THEN (IF is_south_external /\ t \notin LivingTypes
                    THEN AddOpening("add_window", rp, room.id, "south", 8) ELSE <<>>)
                \o (IF is_north_external
                    THEN AddOpening("add_window", rp, room.id, "north", 8) ELSE <<>>)
                \o (IF is_east_external
                    THEN AddOpening("add_window", rp, room.id, "east", 8) ELSE <<>>)
                \o (IF is_west_external
                    THEN AddOpening("add_window", rp, room.id, "west", 8) ELSE <<>>)
              ELSE <<>>)
          \o (IF t \in {"kitchen", "utility"}
              THEN IF is_east_external THEN AddOpening("add_window", rp, room.id, "east", 6)
                   ELSE IF is_west_external
                        THEN AddOpening("add_window", rp, room.id, "west", 6)
                   ELSE IF is_north_external
                        THEN AddOpening("add_window", rp, room.id, "north", 6)
                   ELSE <<>>
              ELSE <<>>)
          \o (IF t \in BathroomTypes
              THEN IF is_north_external THEN AddOpening("add_window", rp, room.id, "north", 4)
                   ELSE IF is_east_external
                        THEN AddOpening("add_window", rp, room.id, "east", 4)
                   ELSE IF is_west_external
                        THEN AddOpening("add_window", rp, room.id, "west", 4)
                   ELSE <<>>
              ELSE <<>>)

\* add_room_furniture: the symbols drawn for the room type, none for a type
\* without furniture or a room the emitter does not know
FurnitureCalls(rp, room_id, room_type) ==
    IF room_id \notin DOMAIN rp THEN <<>>
    ELSE LET r == rp[room_id]
             symbols ==
                 IF room_type \in BedroomTypes
                 THEN <<IF room_type = "master-bedroom" THEN "bed-king" ELSE "bed-double">>
                      \o (IF r[3] > Ft(10) THEN <<"wardrobe">> ELSE <<>>)
                 ELSE IF room_type \in LivingTypes THEN <<"sofa", "coffee-table", "tv-unit">>
                 ELSE IF room_type = "kitchen"
                      THEN <<"counter", "sink", "stove", "refrigerator">>
                 ELSE IF room_type = "dining" THEN <<"dining-table">>
                 ELSE IF room_type \in BathroomTypes
                      THEN <<"toilet", "sink",
                             IF r[3] >= Ft(6) /\ r[4] >= Ft(6) THEN "bathtub" ELSE "shower">>
                 ELSE IF room_type = "courtyard" THEN <<"plant">>
                 ELSE <<>>
         IN  Opt(symbols # <<>>, Call("add_room_furniture", room_id, "", r, symbols))

RECURSIVE ConcatOver(_, _, _)
ConcatOver(F(_), rooms, i) ==
    IF i > Len(rooms) THEN <<>> ELSE F(rooms[i]) \o ConcatOver(F, rooms, i + 1)

\* fault injection: the drawing number also stamped into the project name
TitleBlock_StampedName(p, drawing_no, today) ==
    << Call("add_title_block", "", "", <<p.plot_width + Ft(2), 0 - Ft(6)>>,
            <<"ECO-VASTU FLOOR PLAN", drawing_no>>),
       Call("title_text", "", "", <<p.plot_width, p.plot_depth>>, <<"PLOT">>),
       Call("title_text", "", "", <<>>, <<"SCALE", "1:100">>),
       Call("title_text", "", "", <<>>, <<"FACING", "NORTH">>),
       Call("title_text", "", "", <<>>, <<"DWG", drawing_no>>),
       Call("title_text", "", "", <<today>>, <<"DATE">>) >>

\* add_title_block: the drawing number is the last 8 characters of
\* base_filename, that is the render id; the date is read from the clock
TitleBlock(p, drawing_no, today) ==
    << Call("add_title_block", "", "", <<p.plot_width + Ft(2), 0 - Ft(6)>>,
            <<"ECO-VASTU FLOOR PLAN">>),
       Call("title_text", "", "", <<p.plot_width, p.plot_depth>>, <<"PLOT">>),
       Call("title_text", "", "", <<>>, <<"SCALE", "1:100">>),
       Call("title_text", "", "", <<>>, <<"FACING", "NORTH">>),
       Call("title_text", "", "", <<>>, <<"DWG", drawing_no>>),
       Call("title_text", "", "", <<today>>, <<"DATE">>) >>

\* lines 917-1097 for a single-floor plan without shafts
DrawScene(p, pos, drawing_no, today) ==
    LET rp == RoomPositions(p, pos, EmptyMap, 1)
        RoomOf(room) == <<RoomCall(p, pos, room)>>
        OpeningsOf(room) == OpeningCalls(p, pos, rp, room)
        FurnitureOf(room) == FurnitureCalls(rp, room.id, room.type)
    IN  ConcatOver(RoomOf, p.rooms, 1)
     \o ConcatOver(OpeningsOf, p.rooms, 1)
     \o ConcatOver(FurnitureOf, p.rooms, 1)
     \o << Call("add_north_arrow", "", "",
                <<p.plot_width + Ft(3), p.plot_depth - Ft(2), 0>>, <<"N">>),
           Call("add_dimension_indian", "", "south",
                <<0, p.plot_width>> \o FeetToIndianFormat(p.plot_width, 2), <<>>),
           Call("add_dimension_indian", "", "west",
                <<0, p.plot_depth>> \o FeetToIndianFormat(p.plot_depth, 2), <<>>) >>
     \o TitleBlock(p, drawing_no, today)

\* ------------------------------------------------------------------------
\* State
\* ------------------------------------------------------------------------
VARIABLES
    plan,             \* the request body
    pc,               \* where the handler is
    outcome,          \* "pending", "rejected" (422), "success"
    calc,             \* layout_calc, the RoomLayoutCalculator of the request
    adjacency_graph,  \* local of calculate_positions
    room_ids,         \* the visiting order of _enforce_adjacencies
    ei, ej,           \* the (room, neighbour) pair the pass handles next
    snap,             \* x, y of the visited room, read when its visit began
    positions,        \* the map calculate_positions returned
    render_id,        \* str(uuid.uuid4())[:8]
    scene,            \* the emitter calls made on the drawing
    call_no,          \* number of the invocation
    prev,             \* positions and scene of the previous invocation
    fmt_feet,         \* a length handed to _feet_to_indian_format, in 1/FeetDen ft
    fmt_out,          \* the string it returned
    staircase,        \* a Staircase handed to add_staircase
    stair_scene,      \* the primitives add_staircase put on the STAIRS layer
    room_positions,   \* room_positions of an EngineeringCadGenerator
    msp,              \* what its emitter calls added to the drawing
    cad_log,          \* the emitter calls made on it: op and room id
    subject,          \* index of the room a placement routine is called for
    scan,             \* x, y of the fallback scan
    adj_out,          \* the last adjacency search: anchor and position found
    req,              \* the requests in flight: endpoint, step, locals, response
    files             \* the files of the working and output directories

solverVars == <<calc, adjacency_graph, room_ids, ei, ej, snap, positions>>

planVars == <<plan, pc, outcome, solverVars, render_id, scene, call_no, prev>>

emitterVars == <<room_positions, msp, cad_log>>

cadVars == <<fmt_feet, fmt_out, staircase, stair_scene, emitterVars>>

placeVars == <<subject, scan, adj_out>>

serverVars == <<req, files>>

vars == <<planVars, cadVars, placeVars, serverVars>>

Days == 0..MaxDay

RenderIds == {"0a1b2c3d", "4e5f6a7b"}

IdleCalculator == NewCalculator(0, 0, "south")

NoSearch == [op |-> "none", anchor |-> "", found |-> None]

NoStaircase == [type |-> "none", width_feet |-> 0, riser_height_inches |-> 0,
                tread_width_inches |-> 0, origin |-> <<0, 0>>]

Init ==
    /\ plan \in Plans
    /\ pc = "received"
    /\ outcome = "pending"
    /\ calc = IdleCalculator
    /\ adjacency_graph = EmptyMap
    /\ room_ids = <<>>
    /\ ei = 0
    /\ ej = 0
    /\ snap = <<0, 0>>
    /\ positions = EmptyMap
    /\ render_id = ""
    /\ scene = <<>>
    /\ call_no = 1
    /\ prev = [positions |-> EmptyMap, scene |-> <<>>]
    /\ fmt_feet = 0
    /\ fmt_out = <<>>
    /\ staircase = NoStaircase
    /\ stair_scene = <<>>
    /\ room_positions = EmptyMap
    /\ msp = <<>>
    /\ cad_log = <<>>
    /\ subject = 0
    /\ scan = <<0, 0>>
    /\ adj_out = NoSearch
    /\ req = <<>>
    /\ files = EmptyMap

\* ------------------------------------------------------------------------
\* Request validation: the Field(gt=0) constraints of RoomSpec and
\* PlotDimensions, applied before the handler body runs
\* ------------------------------------------------------------------------
RoomSpecValid(room) == room.width > 0 /\ room.depth > 0

PlanValid(p) ==
    /\ Len(p.rooms) >= 1
    /\ \A i \in 1..Len(p.rooms) : RoomSpecValid(p.rooms[i])
    /\ p.plot_width > 0
    /\ p.plot_depth > 0

ParseRequest ==
    /\ pc = "received"
    /\ IF PlanValid(plan)
       THEN pc' = "validated" /\ outcome' = outcome
       ELSE pc' = "rejected" /\ outcome' = "rejected"
    /\ UNCHANGED <<plan, solverVars, render_id, scene, call_no, prev, cadVars, placeVars, serverVars>>

\* ------------------------------------------------------------------------
\* render_engineering_plan up to the placement phase of calculate_positions
\* ------------------------------------------------------------------------
BeginRender ==
    /\ pc = "validated"
    /\ \E id \in RenderIds : render_id' = id
    /\ LET layout_calc == NewCalculator(plan.plot_width, plan.plot_depth, plan.road_side)
           c1 == PlaceRooms(layout_calc, plan.rooms)
           graph == BuildAdjacencyGraph(plan.rooms)
       IN  /\ calc' = c1
           /\ adjacency_graph' = graph
           /\ \E ids \in SortedRoomIds(plan.rooms, graph) :
                LET pair == NextPair(c1, plan.rooms, graph, ids, 1, 1)
                IN  /\ room_ids' = ids
                    /\ ei' = pair[1]
                    /\ ej' = pair[2]
                    /\ snap' = IF pair[1] <= Len(ids) THEN c1.pos[ids[pair[1]]] ELSE snap
    /\ pc' = "enforce"
    /\ UNCHANGED <<plan, outcome, positions, scene, call_no, prev, cadVars, placeVars, serverVars>>

\* one iteration of the inner loop of _enforce_adjacencies
EnforceStep ==
    /\ pc = "enforce"
    /\ ei <= Len(room_ids)
    /\ LET room_i == RoomById(plan.rooms, room_ids[ei])
           adj_id == GraphGet(adjacency_graph, room_ids[ei])[ej]
           c1 == EnforceNeighbour(calc, plan.rooms, room_i, snap, adj_id)
           pair == NextPair(c1, plan.rooms, adjacency_graph, room_ids, ei, ej + 1)
       IN  /\ calc' = c1
           /\ ei' = pair[1]
           /\ ej' = pair[2]
           /\ snap' = IF pair[1] # ei /\ pair[1] <= Len(room_ids)
                      THEN c1.pos[room_ids[pair[1]]]
                      ELSE snap
    /\ UNCHANGED <<plan, pc, outcome, adjacency_graph, room_ids, positions,
                   render_id, scene, call_no, prev, cadVars, placeVars, serverVars>>

\* the end of the pass, _validate_and_adjust and the return of positions
FinishLayout ==
    /\ pc = "enforce"
    /\ ei > Len(room_ids)
    /\ calc' = ValidateAndAdjust(calc, plan.rooms, 1)
    /\ positions' = calc'.pos
    /\ pc' = "returned"
    /\ UNCHANGED <<plan, outcome, adjacency_graph, room_ids, ei, ej, snap,
                   render_id, scene, call_no, prev, cadVars, placeVars, serverVars>>

\* the drawing, from the first add_room_with_walls to add_title_block; the
\* date of the title block is the day datetime.now() falls on
Draw ==
    /\ pc = "returned"
    /\ \E today \in Days : scene' = DrawScene(plan, positions, render_id, today)
    /\ pc' = "drawn"
    /\ UNCHANGED <<plan, outcome, solverVars, render_id, call_no, prev, cadVars, placeVars, serverVars>>

\* generate_dxf, the wireframe and the RenderResult
Respond ==
    /\ pc = "drawn"
    /\ outcome' = "success"
    /\ pc' = "done"
    /\ UNCHANGED <<plan, solverVars, render_id, scene, call_no, prev, cadVars, placeVars, serverVars>>

\* the same plan is submitted again
Resubmit ==
    /\ pc = "done"
    /\ call_no < MaxCalls
    /\ call_no' = call_no + 1
    /\ prev' = [positions |-> positions, scene |-> scene]
    /\ pc' = "received"
    /\ outcome' = "pending"
    /\ calc' = IdleCalculator
    /\ adjacency_graph' = EmptyMap
    /\ room_ids' = <<>>
    /\ ei' = 0
    /\ ej' = 0
    /\ snap' = <<0, 0>>
    /\ positions' = EmptyMap
    /\ render_id' = ""
    /\ scene' = <<>>
    /\ UNCHANGED <<plan, cadVars, placeVars, serverVars>>

Next ==
    \/ ParseRequest
    \/ BeginRender
    \/ EnforceStep
    \/ FinishLayout
    \/ Draw
    \/ Respond
    \/ Resubmit

Spec == Init /\ [][Next]_vars

\* ------------------------------------------------------------------------
\* The dimension formatter on its own: lengths of 0 .. MaxFeetNum/FeetDen ft
\* ------------------------------------------------------------------------
FmtInit ==
    /\ fmt_feet \in 0..MaxFeetNum
    /\ fmt_out = <<>>
    /\ staircase = NoStaircase
    /\ stair_scene = <<>>
    /\ room_positions = EmptyMap
    /\ msp = <<>>
    /\ cad_log = <<>>
    /\ subject = 0
    /\ scan = <<0, 0>>
    /\ adj_out = NoSearch
    /\ req = <<>>
    /\ files = EmptyMap
    /\ plan = [plot_width |-> 0, plot_depth |-> 0, road_side |-> "south", rooms |-> <<>>]
    /\ pc = "formatter"
    /\ outcome = "pending"
    /\ calc = IdleCalculator
    /\ adjacency_graph = EmptyMap
    /\ room_ids = <<>>
    /\ ei = 0
    /\ ej = 0
    /\ snap = <<0, 0>>
    /\ positions = EmptyMap
    /\ render_id = ""
    /\ scene = <<>>
    /\ call_no = 1
    /\ prev = [positions |-> EmptyMap, scene |-> <<>>]

Format ==
    /\ pc = "formatter"
    /\ fmt_out = <<>>
    /\ fmt_out' = FeetToIndianFormat(fmt_feet, FeetDen)
    /\ UNCHANGED <<planVars, fmt_feet, staircase, stair_scene, emitterVars, placeVars, serverVars>>

FmtNext == Format

SpecFmt == FmtInit /\ [][FmtNext]_vars

\* ------------------------------------------------------------------------
\* add_staircase.  Lengths are integers in 1/720 inch, so that the halves,
\* thirds, step depths and the 0.2, 0.3 and 0.8 factors of the staircases
\* drawn below are whole numbers.
\* ------------------------------------------------------------------------
Inch(n) == 720 * n

Feet(n) == Inch(12 * n)

\* math.ceil(a / b) for positive a, b
CeilDiv(a, b) == (a + b - 1) \div b

\* a primitive on the STAIRS layer: its kind, its points and its text
Prim(kind, pts, text) == [kind |-> kind, pts |-> pts, text |-> text]

\* floor_height_inches = 10 * 12
FloorHeightInches == 120

NumSteps(s) == CeilDiv(Inch(FloorHeightInches), s.riser_height_inches)

\* num_steps * tread_feet, tread_feet = tread_width_inches / 12
TotalLength(s) == NumSteps(s) * s.tread_width_inches

\* the step lines i..num_steps-1 of a flight
RECURSIVE StepLines(_, _, _, _, _, _)
StepLines(x, y, width, step_depth, num_steps, i) ==
    IF i >= num_steps THEN <<>>
    ELSE <<Prim("line", <<<<x, y + i * step_depth>>, <<x + width, y + i * step_depth>>>>, "")>>
         \o StepLines(x, y, width, step_depth, num_steps, i + 1)

DrawStraightStaircase(x, y, width, length, num_steps) ==
    LET step_depth == length \div num_steps
        arrow_y == y + (length * 8) \div 10
        mid == x + width \div 2
    IN  <<Prim("polyline", <<<<x, y>>, <<x + width, y>>, <<x + width, y + length>>,
                             <<x, y + length>>, <<x, y>>>>, "")>>
        \o StepLines(x, y, width, step_depth, num_steps, 1)
        \o <<Prim("line", <<<<mid, y + (length * 2) \div 10>>, <<mid, arrow_y>>>>, ""),
             Prim("line", <<<<mid - Feet(2) \div 10, arrow_y - Feet(3) \div 10>>,
                            <<mid, arrow_y>>>>, ""),
             Prim("line", <<<<mid + Feet(2) \div 10, arrow_y - Feet(3) \div 10>>,
                            <<mid, arrow_y>>>>, ""),
             Prim("text", <<<<mid, y + Feet(3) \div 10>>>>, "UP")>>

DrawLStaircase(x, y, width, length, num_steps) ==
    LET half_steps == num_steps \div 2
        half_length == length \div 2
        landing_size == width
    IN  DrawStraightStaircase(x, y, width, half_length, half_steps)
        \o <<Prim("polyline",
                  <<<<x, y + half_length>>,
                    <<x + width, y + half_length>>,
                    <<x + width, y + half_length + landing_size>>,
                    <<x - landing_size, y + half_length + landing_size>>,
                    <<x - landing_size, y + half_length>>,
                    <<x, y + half_length>>>>, ""),
             Prim("polyline",
                  <<<<x - landing_size, y + half_length>>,
                    <<x - landing_size - half_length, y + half_length>>,
                    <<x - landing_size - half_length, y + half_length + landing_size>>,
                    <<x - landing_size, y + half_length + landing_size>>>>, "")>>

\* the step lines of the second flight of a u-shaped staircase, downwards
RECURSIVE StepLinesDown(_, _, _, _, _, _)
StepLinesDown(x, top, width, step_depth, num_steps, i) ==
    IF i >= num_steps THEN <<>>
    ELSE <<Prim("line", <<<<x, top - i * step_depth>>, <<x + width, top - i * step_depth>>>>, "")>>
         \o StepLinesDown(x, top, width, step_depth, num_steps, i + 1)

DrawUStaircase(x, y, width, length, num_steps) ==
    LET third_steps == num_steps \div 3
        flight_length == length \div 3
        gap == Feet(1) \div 2
        landing_depth == width
        second_x == x + width + gap
        step_depth == flight_length \div third_steps
    IN  DrawStraightStaircase(x, y, width, flight_length, third_steps)
        \o <<Prim("polyline",
                  <<<<x, y + flight_length>>,
                    <<x + width * 2 + gap, y + flight_length>>,
                    <<x + width * 2 + gap, y + flight_length + landing_depth>>,
                    <<x, y + flight_length + landing_depth>>,
                    <<x, y + flight_length>>>>, ""),
             Prim("polyline",
                  <<<<second_x, y>>, <<second_x + width, y>>,
                    <<second_x + width, y + flight_length>>,
                    <<second_x, y + flight_length>>, <<second_x, y>>>>, "")>>
        \o StepLinesDown(second_x, y + flight_length, width, step_depth, third_steps, 1)

\* the radial lines at 0, 30, ..., 330 degrees, each from the central column
\* to the outer circle: centre, (inner, outer) radius, angle
RECURSIVE RadialLines(_, _, _)
RadialLines(center, radius, angle) ==
    IF angle >= 360 THEN <<>>
    ELSE <<Prim("radial", <<center, <<Feet(1) \div 2, radius>>, <<angle, 0>>>>, "")>>
         \o RadialLines(center, radius, angle + 30)

DrawSpiralStaircase(x, y, diameter) ==
    LET radius == diameter \div 2
        center == <<x + radius, y + radius>>
    IN  <<Prim("circle", <<center, <<radius, 0>>>>, ""),
          Prim("circle", <<center, <<Feet(1) \div 2, 0>>>>, "")>>
        \o RadialLines(center, radius, 0)
        \o <<Prim("text", <<center>>, "SPIRAL")>>

\* add_staircase(staircase, origin): the primitives drawn
AddStaircase(s) ==
    LET x == s.origin[1]
        y == s.origin[2]
        width == s.width_feet
        num_steps == NumSteps(s)
        total_length == TotalLength(s)
    IN  IF s.type = "straight" THEN DrawStraightStaircase(x, y, width, total_length, num_steps)
        ELSE IF s.type = "l-shaped" THEN DrawLStaircase(x, y, width, total_length, num_steps)
        ELSE IF s.type = "u-shaped" THEN DrawUStaircase(x, y, width, total_length, num_steps)
        ELSE IF s.type = "spiral" THEN DrawSpiralStaircase(x, y, width)
        ELSE <<>>

\* the staircases of StaircaseSpec: width 3 to 5 ft, riser 6 to 7.5 in,
\* tread 10 to 12 in, at a position inside the plot
Staircases ==
    {[type |-> t, width_feet |-> w, riser_height_inches |-> r,
      tread_width_inches |-> tr, origin |-> o] :
        t \in {"straight", "l-shaped", "u-shaped", "spiral"},
        w \in {Feet(3), Feet(7) \div 2, Feet(4), Feet(5)},
        r \in {Inch(6), Inch(13) \div 2, Inch(7), Inch(15) \div 2},
        tr \in {Inch(10), Inch(11), Inch(12)},
        o \in {<<Feet(15), Feet(12)>>}}

StairInit ==
    /\ plan = [plot_width |-> 0, plot_depth |-> 0, road_side |-> "south", rooms |-> <<>>]
    /\ pc = "staircase"
    /\ outcome = "pending"
    /\ calc = IdleCalculator
    /\ adjacency_graph = EmptyMap
    /\ room_ids = <<>>
    /\ ei = 0
    /\ ej = 0
    /\ snap = <<0, 0>>
    /\ positions = EmptyMap
    /\ render_id = ""
    /\ scene = <<>>
    /\ call_no = 1
    /\ prev = [positions |-> EmptyMap, scene |-> <<>>]
    /\ fmt_feet = 0
    /\ fmt_out = <<>>
    /\ staircase \in Staircases
    /\ stair_scene = <<>>
    /\ room_positions = EmptyMap
    /\ msp = <<>>
    /\ cad_log = <<>>
    /\ subject = 0
    /\ scan = <<0, 0>>
    /\ adj_out = NoSearch
    /\ req = <<>>
    /\ files = EmptyMap

\* cad.add_staircase(staircase, stair_origin)
DrawStaircase ==
    /\ pc = "staircase"
    /\ stair_scene = <<>>
    /\ stair_scene' = AddStaircase(staircase)
    /\ UNCHANGED <<planVars, fmt_feet, fmt_out, staircase, emitterVars, placeVars, serverVars>>

StairNext == DrawStaircase

SpecStair == StairInit /\ [][StairNext]_vars

\* ------------------------------------------------------------------------
\* An EngineeringCadGenerator driven call by call: add_room_with_walls,
\* add_door, add_window and add_room_furniture with the room ids a caller
\* may pass, known to the emitter or not
\* ------------------------------------------------------------------------
\* the rooms handed to add_room_with_walls, each at its origin
EmitterRooms ==
    {[room |-> Catalogue[1], origin |-> <<0, 0>>],
     [room |-> Catalogue[2], origin |-> <<0, Ft(12)>>],
     [room |-> Catalogue[6], origin |-> <<Ft(15), 0>>]}

\* the room ids passed to the opening and furniture calls; no room has the
\* id "garage"
EmitterIds == {e.room.id : e \in EmitterRooms} \cup {"garage"}

CadInit ==
    /\ plan = [plot_width |-> 0, plot_depth |-> 0, road_side |-> "south", rooms |-> <<>>]
    /\ pc = "emitter"
    /\ outcome = "pending"
    /\ calc = IdleCalculator
    /\ adjacency_graph = EmptyMap
    /\ room_ids = <<>>
    /\ ei = 0
    /\ ej = 0
    /\ snap = <<0, 0>>
    /\ positions = EmptyMap
    /\ render_id = ""
    /\ scene = <<>>
    /\ call_no = 1
    /\ prev = [positions |-> EmptyMap, scene |-> <<>>]
    /\ fmt_feet = 0
    /\ fmt_out = <<>>
    /\ staircase = NoStaircase
    /\ stair_scene = <<>>
    /\ room_positions = EmptyMap
    /\ msp = <<>>
    /\ cad_log = <<>>
    /\ subject = 0
    /\ scan = <<0, 0>>
    /\ adj_out = NoSearch
    /\ req = <<>>
    /\ files = EmptyMap

Logged(op, room_id) ==
    /\ pc = "emitter"
    /\ Len(cad_log) < MaxCadCalls
    /\ cad_log' = Append(cad_log, [op |-> op, room_id |-> room_id])
    /\ UNCHANGED <<planVars, fmt_feet, fmt_out, staircase, stair_scene, placeVars, serverVars>>

\* add_room_with_walls(room, origin, is_external=True)
CadAddRoom ==
    \E e \in EmitterRooms :
        /\ Logged("add_room_with_walls", e.room.id)
        /\ msp' = Append(msp, Call("add_room_with_walls", e.room.id, "",
                                   <<e.origin[1], e.origin[2], e.room.width, e.room.depth>>,
                                   <<"external">>))
        /\ room_positions' = Put(room_positions, e.room.id,
                                 <<e.origin[1], e.origin[2], e.room.width, e.room.depth>>)

\* add_door(room_id, 'south', door_width=3.0)
CadAddDoor ==
    \E id \in EmitterIds :
        /\ Logged("add_door", id)
        /\ msp' = msp \o AddOpening("add_door", room_positions, id, "south", Ft(3))
        /\ UNCHANGED room_positions

\* add_window(room_id, 'north', window_width=4.0)
CadAddWindow ==
    \E id \in EmitterIds :
        /\ Logged("add_window", id)
        /\ msp' = msp \o AddOpening("add_window", room_positions, id, "north", Ft(4))
        /\ UNCHANGED room_positions

\* add_room_furniture(room_id, room_type)
CadAddFurniture ==
    \E id \in EmitterIds, room_type \in {"living", "bedroom"} :
        /\ Logged("add_room_furniture", id)
        /\ msp' = msp \o FurnitureCalls(room_positions, id, room_type)
        /\ UNCHANGED room_positions

CadNext ==
    \/ CadAddRoom
    \/ CadAddDoor
    \/ CadAddWindow
    \/ CadAddFurniture

SpecCad == CadInit /\ [][CadNext]_vars

\* ------------------------------------------------------------------------
\* The placement routines step by step.  The calculator has placed the rooms
\* of a plan and reaches, in its loop over the remaining rooms, a last room
\* of a type no row or chain handles: the adjacency-directed search and the
\* fallback scan are run for it, and then the search of the enforcement pass.
\* ------------------------------------------------------------------------
\* rooms of types that only the loops over the remaining rooms place
RemainingRooms ==
    { Room("pooja", "pooja", 16, 6, <<"courtyard", "garden">>),
      Room("study", "study", 15, 12, <<"living">>),
      Room("utility", "utility", 10, 8, <<"kitchen">>),
      Room("wash", "wash", 6, 5, <<>>) }

PlaceInit ==
    /\ \E p \in Plans, r \in RemainingRooms :
          /\ PlanValid(p)
          /\ Len(p.rooms) < MaxRooms
          /\ r.id \notin RoomIds(p.rooms)
          /\ plan = [p EXCEPT !.rooms = Append(p.rooms, r)]
          /\ calc = PlaceRooms(NewCalculator(p.plot_width, p.plot_depth, p.road_side),
                               p.rooms)
          /\ subject = Len(p.rooms) + 1
    /\ pc = "scanning"
    /\ scan = <<0, 0>>
    /\ adj_out = NoSearch
    /\ req = <<>>
    /\ files = EmptyMap
    /\ outcome = "pending"
    /\ adjacency_graph = EmptyMap
    /\ room_ids = <<>>
    /\ ei = 0
    /\ ej = 0
    /\ snap = <<0, 0>>
    /\ positions = EmptyMap
    /\ render_id = ""
    /\ scene = <<>>
    /\ call_no = 1
    /\ prev = [positions |-> EmptyMap, scene |-> <<>>]
    /\ fmt_feet = 0
    /\ fmt_out = <<>>
    /\ staircase = NoStaircase
    /\ stair_scene = <<>>
    /\ room_positions = EmptyMap
    /\ msp = <<>>
    /\ cad_log = <<>>

\* _find_adjacent_position_for(room, adj_id) for a placed adj_id, before the
\* scan begins
SearchAdjacentFor ==
    /\ pc = "scanning"
    /\ scan = <<0, 0>>
    /\ adj_out = NoSearch
    /\ \E adj_id \in DOMAIN calc.pos :
          adj_out' = [op |-> "_find_adjacent_position_for", anchor |-> adj_id,
                      found |-> FindAdjacentPositionFor(calc, plan.rooms, subject, adj_id)]
    /\ UNCHANGED <<pc, calc, scan>>
    /\ UNCHANGED <<plan, outcome, adjacency_graph, room_ids, ei, ej, snap, positions,
                   render_id, scene, call_no, prev, cadVars, subject, serverVars>>

\* one iteration of the inner while loop of _place_in_available_space: the
\* cell at (x, y) is taken when no placed room overlaps it, otherwise x goes
\* to the far edge of the first room that does, and then one foot on
ScanCandidate ==
    /\ pc = "scanning"
    /\ scan[2] + plan.rooms[subject].depth <= calc.plot_depth
    /\ scan[1] + plan.rooms[subject].width <= calc.plot_width
    /\ LET room == plan.rooms[subject]
           k == FirstCollision(calc, plan.rooms, {}, scan[1], scan[2],
                               room.width, room.depth, 1)
       IN  IF k = 0
           THEN /\ calc' = SetPlaced(SetPosition(calc, room.id, scan), room.id, subject)
                /\ pc' = "placed"
                /\ scan' = scan
           ELSE LET pid == calc.order[k]
                    far == calc.pos[pid][1] + plan.rooms[calc.placed_rooms[pid]].width
                IN  /\ scan' = <<far + Ft(1), scan[2]>>
                    /\ UNCHANGED <<calc, pc>>
    /\ UNCHANGED adj_out
    /\ UNCHANGED <<plan, outcome, adjacency_graph, room_ids, ei, ej, snap, positions,
                   render_id, scene, call_no, prev, cadVars, subject, serverVars>>

\* fault injection: the row loop that starts the same row again
ScanNextRow_SameRow ==
    /\ pc = "scanning"
    /\ scan[2] + plan.rooms[subject].depth <= calc.plot_depth
    /\ scan[1] + plan.rooms[subject].width > calc.plot_width
    /\ scan' = <<0, scan[2]>>
    /\ UNCHANGED <<pc, calc, adj_out>>
    /\ UNCHANGED <<plan, outcome, adjacency_graph, room_ids, ei, ej, snap, positions,
                   render_id, scene, call_no, prev, cadVars, subject, serverVars>>

\* the row is exhausted: y += max(1, room.depth / 2), x = 0
ScanNextRow ==
    /\ pc = "scanning"
    /\ scan[2] + plan.rooms[subject].depth <= calc.plot_depth
    /\ scan[1] + plan.rooms[subject].width > calc.plot_width
    /\ scan' = <<0, scan[2] + Max(Ft(1), plan.rooms[subject].depth \div 2)>>
    /\ UNCHANGED <<pc, calc, adj_out>>
    /\ UNCHANGED <<plan, outcome, adjacency_graph, room_ids, ei, ej, snap, positions,
                   render_id, scene, call_no, prev, cadVars, subject, serverVars>>

\* fault injection: the last resort that leaves the room without a position
ScanLastResort_Unplaced ==
    /\ pc = "scanning"
    /\ scan[2] + plan.rooms[subject].depth > calc.plot_depth
    /\ pc' = "origin"
    /\ UNCHANGED <<calc, scan, adj_out>>
    /\ UNCHANGED <<plan, outcome, adjacency_graph, room_ids, ei, ej, snap, positions,
                   render_id, scene, call_no, prev, cadVars, subject, serverVars>>

\* the plot is exhausted: "Last resort: place at origin with warning"
ScanLastResort ==
    /\ pc = "scanning"
    /\ scan[2] + plan.rooms[subject].depth > calc.plot_depth
    /\ calc' = SetPlaced(SetPosition(calc, plan.rooms[subject].id, <<0, 0>>),
                         plan.rooms[subject].id, subject)
    /\ pc' = "origin"
    /\ UNCHANGED <<scan, adj_out>>
    /\ UNCHANGED <<plan, outcome, adjacency_graph, room_ids, ei, ej, snap, positions,
                   render_id, scene, call_no, prev, cadVars, subject, serverVars>>

\* the solver goes on: the enforcement pass finds the room away from a
\* neighbour and moves it with _find_adjacent_position(anchor, room)
MoveAdjacent ==
    /\ pc \in {"placed", "origin"}
    /\ \E anchor_id \in DOMAIN calc.pos \ {plan.rooms[subject].id} :
          LET anchor_i == RoomById(plan.rooms, anchor_id)
              new_pos == FindAdjacentPosition(calc, plan.rooms, anchor_i, subject)
          IN  /\ adj_out' = [op |-> "_find_adjacent_position", anchor |-> anchor_id,
                             found |-> new_pos]
              /\ calc' = IF new_pos # None
                         THEN SetPosition(calc, plan.rooms[subject].id, new_pos)
                         ELSE calc
    /\ pc' = "enforced"
    /\ UNCHANGED scan
    /\ UNCHANGED <<plan, outcome, adjacency_graph, room_ids, ei, ej, snap, positions,
                   render_id, scene, call_no, prev, cadVars, subject, serverVars>>

PlaceNext ==
    \/ SearchAdjacentFor
    \/ ScanCandidate
    \/ ScanNextRow
    \/ ScanLastResort
    \/ MoveAdjacent

SpecPlace == PlaceInit /\ [][PlaceNext]_vars

\* ------------------------------------------------------------------------
\* calculate_positions as a run of loop iterations: the iterations of the
\* fallback scan and, after the placement stage, those of the enforcement
\* pass and the final adjustment.  The solver is one sequential call: an
\* iteration that can be taken is taken, which is weak fairness of each.
\* ------------------------------------------------------------------------
TermNext ==
    \/ ParseRequest
    \/ BeginRender
    \/ EnforceStep
    \/ FinishLayout
    \/ ScanCandidate
    \/ ScanNextRow
    \/ ScanLastResort

SpecTerm ==
    /\ (Init \/ PlaceInit)
    /\ [][TermNext]_vars
    /\ WF_vars(EnforceStep)
    /\ WF_vars(FinishLayout)
    /\ WF_vars(ScanCandidate)
    /\ WF_vars(ScanNextRow)
    /\ WF_vars(ScanLastResort)

\* ------------------------------------------------------------------------
\* calculate_positions of one request on its own: validation, the placement
\* stage, the enforcement pass step by step and the final adjustment
\* ------------------------------------------------------------------------
\* room lists handed to a calculator that has already been used
LaterRoomLists ==
    { RoomsOf(<<9>>, TRUE), RoomsOf(<<1, 2>>, TRUE),
      RoomsOf(<<6, 5>>, TRUE), RoomsOf(<<7, 4, 1>>, TRUE) }

\* calculate_positions is called again on the instance that has returned,
\* with another room list: the placement stage of that call
CalculateAgain ==
    /\ pc = "returned"
    /\ call_no < MaxCalls
    /\ call_no' = call_no + 1
    /\ \E rooms \in LaterRoomLists : plan' = [plan EXCEPT !.rooms = rooms]
    /\ calc' = PlaceRooms(calc, plan'.rooms)
    /\ adjacency_graph' = BuildAdjacencyGraph(plan'.rooms)
    /\ room_ids' \in SortedRoomIds(plan'.rooms, adjacency_graph')
    /\ LET pair == NextPair(calc', plan'.rooms, adjacency_graph', room_ids', 1, 1)
       IN  /\ ei' = pair[1]
           /\ ej' = pair[2]
           /\ snap' = IF pair[1] <= Len(room_ids')
                      THEN calc'.pos[room_ids'[pair[1]]]
                      ELSE snap
    /\ pc' = "enforce"
    /\ UNCHANGED <<outcome, positions, render_id, scene, prev, cadVars, placeVars, serverVars>>

SolveNext ==
    \/ ParseRequest
    \/ BeginRender
    \/ EnforceStep
    \/ FinishLayout
    \/ CalculateAgain

SpecSolve == Init /\ [][SolveNext]_vars

\* ------------------------------------------------------------------------
\* Two requests served at the same time by workers that share the working
\* and the output directory.  A step is a whole stretch of a handler between
\* two accesses to the file system; open(path, "wb") truncates the file and
\* the bytes are there when the with block is left.
\* A path is <<stem, day, id, extension>>; a file holds <<>> when truncated,
\* <<"dxf", scene>> or <<"png", scene>> when written.
\* ------------------------------------------------------------------------
Requests == {"first", "second"}

\* the plan of the standard-mode scenario
ScenarioPlan ==
    [plot_width |-> Ft(30), plot_depth |-> Ft(40), road_side |-> "south",
     rooms |-> << Room("living", "living", 15, 12, <<"kitchen", "dining">>),
                  Room("kitchen", "kitchen", 10, 8, <<"living">>),
                  Room("dining", "dining", 10, 8, <<"living", "kitchen">>) >>]

\* gen.add_room("Main Hall", 10, 8, (0, 0)); gen.add_room("Kitchen", 5, 4, (10, 0))
MockScene ==
    << Call("add_room", "Main Hall", "", <<0, 0, 10, 8>>, <<"Main Hall">>),
       Call("add_room", "Kitchen", "", <<10, 0, 5, 4>>, <<"Kitchen">>) >>

\* GeminiClient.generate_blueprint_render: Image.open on a file that is not
\* an image raises, and the handler of the exception returns None
GenerateBlueprintRender(prompt, path) ==
    IF path \in DOMAIN files /\ files[path] # <<>> /\ files[path][1] = "png"
    THEN <<"render", prompt, files[path][2]>>
    ELSE None

Idle ==
    [endpoint |-> "", step |-> "idle", prompt |-> "", ai_render |-> FALSE,
     dxf_path |-> <<>>, wireframe_path |-> <<>>, positions |-> EmptyMap,
     scene |-> <<>>, ai |-> None, response |-> <<>>]

ServerInit ==
    /\ req = [r \in Requests |-> Idle]
    /\ files = EmptyMap
    /\ plan = ScenarioPlan
    /\ pc = "serving"
    /\ outcome = "pending"
    /\ calc = IdleCalculator
    /\ adjacency_graph = EmptyMap
    /\ room_ids = <<>>
    /\ ei = 0
    /\ ej = 0
    /\ snap = <<0, 0>>
    /\ positions = EmptyMap
    /\ render_id = ""
    /\ scene = <<>>
    /\ call_no = 1
    /\ prev = [positions |-> EmptyMap, scene |-> <<>>]
    /\ fmt_feet = 0
    /\ fmt_out = <<>>
    /\ staircase = NoStaircase
    /\ stair_scene = <<>>
    /\ room_positions = EmptyMap
    /\ msp = <<>>
    /\ cad_log = <<>>
    /\ subject = 0
    /\ scan = <<0, 0>>
    /\ adj_out = NoSearch

\* POST /api/generate with specs.description or the default prompt: the mock
\* rooms are drawn
ReceiveGenerate(r) ==
    /\ req[r].step = "idle"
    /\ \E d \in {"Professional blueprint style", "pencil sketch"} :
          req' = [req EXCEPT ![r] =
                    [Idle EXCEPT !.endpoint = "/api/generate", !.step = "drawn",
                                 !.prompt = d, !.ai_render = TRUE,
                                 !.dxf_path = <<"output", 0, "", ".dxf">>,
                                 !.wireframe_path = <<"temp_structure", 0, "", ".png">>,
                                 !.scene = MockScene]]
    /\ UNCHANGED files
    /\ UNCHANGED <<planVars, cadVars, placeVars>>

\* POST /api/render-engineering-plan: uuid4 and the clock name the files,
\* the solver and the emitter run on objects of this request
ReceiveRender(r) ==
    /\ req[r].step = "idle"
    /\ \E p \in {ScenarioPlan, [ScenarioPlan EXCEPT !.plot_width = Ft(40)]},
          id \in RenderIds, today \in Days, ai_render \in BOOLEAN :
          /\ \A o \in Requests \ {r} :
                req[o].dxf_path # <<"engineering_plan", today, id, ".dxf">>
          /\ LET layout_calc == NewCalculator(p.plot_width, p.plot_depth, p.road_side)
                 pos == CalculatePositions(layout_calc, p.rooms).pos
             IN  req' = [req EXCEPT ![r] =
                    [Idle EXCEPT !.endpoint = "/api/render-engineering-plan",
                                 !.step = "drawn",
                                 !.prompt = "Transform this architectural wireframe",
                                 !.ai_render = ai_render,
                                 !.dxf_path = <<"engineering_plan", today, id, ".dxf">>,
                                 !.wireframe_path =
                                     <<"engineering_plan", today, id, "_wireframe.png">>,
                                 !.positions = pos,
                                 !.scene = DrawScene(p, pos, id, today)]]
    /\ UNCHANGED files
    /\ UNCHANGED <<planVars, cadVars, placeVars>>

\* generate_dxf: doc.saveas(path)
SaveDxf(r) ==
    /\ req[r].step = "drawn"
    /\ files' = Put(files, req[r].dxf_path, <<"dxf", req[r].scene>>)
    /\ req' = [req EXCEPT ![r].step = "saved"]
    /\ UNCHANGED <<planVars, cadVars, placeVars>>

\* open(wireframe_path, "wb")
OpenWireframe(r) ==
    /\ req[r].step = "saved"
    /\ files' = Put(files, req[r].wireframe_path, <<>>)
    /\ req' = [req EXCEPT ![r].step = "open"]
    /\ UNCHANGED <<planVars, cadVars, placeVars>>

\* f.write(png_data) and the end of the with block
WriteWireframe(r) ==
    /\ req[r].step = "open"
    /\ files' = Put(files, req[r].wireframe_path, <<"png", req[r].scene>>)
    /\ req' = [req EXCEPT ![r].step = "written"]
    /\ UNCHANGED <<planVars, cadVars, placeVars>>

\* client.generate_blueprint_render(prompt, wireframe_path)
CallGemini(r) ==
    /\ req[r].step = "written"
    /\ req[r].ai_render
    /\ req' = [req EXCEPT ![r].step = "rendered",
                          ![r].ai = GenerateBlueprintRender(req[r].prompt,
                                                            req[r].wireframe_path)]
    /\ UNCHANGED files
    /\ UNCHANGED <<planVars, cadVars, placeVars>>

\* the response: the AI image when there is one, the wireframe otherwise
SendResponse(r) ==
    /\ \/ req[r].step = "rendered"
       \/ req[r].step = "written" /\ ~req[r].ai_render
    /\ req' = [req EXCEPT ![r].step = "done",
                          ![r].response =
                              [dxf_path |-> req[r].dxf_path,
                               positions |-> req[r].positions,
                               wireframe |-> <<"png", req[r].scene>>,
                               ai_rendered |-> req[r].ai,
                               ai_enhanced |-> req[r].ai # None]]
    /\ UNCHANGED files
    /\ UNCHANGED <<planVars, cadVars, placeVars>>

ServerNext ==
    \E r \in Requests :
        \/ ReceiveGenerate(r)
        \/ ReceiveRender(r)
        \/ SaveDxf(r)
        \/ OpenWireframe(r)
        \/ WriteWireframe(r)
        \/ CallGemini(r)
        \/ SendResponse(r)

SpecServer == ServerInit /\ [][ServerNext]_vars

\* ------------------------------------------------------------------------
\* Properties of the layout solver
\* ------------------------------------------------------------------------
\* calculate_positions has returned
Returned == pc \in {"returned", "drawn", "done"}

HasCourtyard == FindCourtyard(plan.rooms) # 0

RoomOfId(id) == plan.rooms[RoomById(plan.rooms, id)]

\* the rectangle of a room of the returned map lies in the plot
InsidePlot(id) ==
    /\ 0 <= positions[id][1]
    /\ 0 <= positions[id][2]
    /\ positions[id][1] + RoomOfId(id).width <= plan.plot_width
    /\ positions[id][2] + RoomOfId(id).depth <= plan.plot_depth

\* the interiors of two rectangles of the returned map meet
Overlapping(a, b) ==
    RectsOverlap(positions[a][1], positions[a][2], RoomOfId(a).width, RoomOfId(a).depth,
                 positions[b][1], positions[b][2], RoomOfId(b).width, RoomOfId(b).depth)

NoTwoOverlap ==
    \A a, b \in DOMAIN positions : a # b => ~Overlapping(a, b)

\* C1: in both layout modes the returned map has exactly one origin for each
\* room id of the input and no other key: no room is missing, none is
\* duplicated
C1_OneOriginPerRoom ==
    Returned =>
        /\ DOMAIN positions = RoomIds(plan.rooms)
        /\ Len(calc.order) = Len(plan.rooms)
        /\ \A id \in RoomIds(plan.rooms) : Len(positions[id]) = 2

\* C1 witness: a courtyard plan of three rooms has been laid out
C1_Witness ==
    /\ pc = "returned"
    /\ HasCourtyard
    /\ Len(plan.rooms) = 3
    /\ DOMAIN positions = RoomIds(plan.rooms)

\* C2 as claimed: after final validation every room of the returned map lies
\* within the plot
C2_AllRoomsInsidePlot ==
    Returned => \A id \in DOMAIN positions : InsidePlot(id)

\* the rooms take at most a quarter of the plot area
WellUnderPlotArea ==
    LET RECURSIVE Area(_)
        Area(i) == IF i = 0 THEN 0
                   ELSE plan.rooms[i].width * plan.rooms[i].depth + Area(i - 1)
    IN  4 * Area(Len(plan.rooms)) <= plan.plot_width * plan.plot_depth

\* the declared adjacencies between rooms of the plan, as unordered pairs
DeclaredEdges ==
    {{plan.rooms[i].id, plan.rooms[i].adjacent_to[j]} :
        <<i, j>> \in {ij \in (1..Len(plan.rooms)) \X (1..2) :
                         /\ ij[2] <= Len(plan.rooms[ij[1]].adjacent_to)
                         /\ plan.rooms[ij[1]].adjacent_to[ij[2]] \in RoomIds(plan.rooms)}}

\* a graph without cycles: stripping leaves removes every edge
RECURSIVE IsForest(_)
IsForest(edges) ==
    IF edges = {} THEN TRUE
    ELSE IF \E e \in edges : Cardinality(e) = 1 THEN FALSE
    ELSE LET leafEdges == {e \in edges :
                              \E n \in e : \A f \in edges : n \in f => f = e}
         IN  IF leafEdges = {} THEN FALSE
             ELSE IsForest(edges \ {CHOOSE e \in leafEdges : TRUE})

NoCircularDemands == IsForest(DeclaredEdges)

\* C3 as claimed: in standard row mode, for rooms well under the plot area
\* and without circular adjacency demands, no two rectangles of the returned
\* map overlap
C3_NoOverlapInStandardMode ==
    (Returned /\ ~HasCourtyard /\ WellUnderPlotArea /\ NoCircularDemands) => NoTwoOverlap

C6_StandardScenario ==
    (plan = ScenarioPlan /\ Returned) =>
        /\ positions["living"] = <<0, 0>>
        /\ positions["dining"][2] = Ft(12)
        /\ positions["kitchen"][2] = Ft(12)
        /\ \A id \in {"living", "dining", "kitchen"} : InsidePlot(id)
        /\ NoTwoOverlap

\* C6 witness: the scenario plan has been laid out
C6_Witness ==
    /\ plan = ScenarioPlan
    /\ pc = "returned"
    /\ DOMAIN positions = {"living", "dining", "kitchen"}

\* the first courtyard room is no larger than the plot
CourtyardFits ==
    /\ HasCourtyard
    /\ plan.rooms[FindCourtyard(plan.rooms)].width <= plan.plot_width
    /\ plan.rooms[FindCourtyard(plan.rooms)].depth <= plan.plot_depth

\* C7 as claimed: a courtyard no larger than the plot is returned centred,
\* whatever other rooms and adjacency declarations the input has
C7_CourtyardCentred ==
    (Returned /\ CourtyardFits) =>
        LET c == plan.rooms[FindCourtyard(plan.rooms)]
        IN  /\ 2 * positions[c.id][1] = plan.plot_width - c.width
            /\ 2 * positions[c.id][2] = plan.plot_depth - c.depth

\* the rooms of row 1 that are placed whatever their width
RowOneWidth(p) ==
    (IF FindVerandah(p.rooms) # 0 THEN p.rooms[FindVerandah(p.rooms)].width ELSE 0)
    + (IF FindLiving(p.rooms) # 0 THEN p.rooms[FindLiving(p.rooms)].width ELSE 0)

\* an input the error taxonomy rejects: a room of non-positive width or
\* depth, or a plot narrower than the rooms of row 1
InputError(p) ==
    \/ \E i \in 1..Len(p.rooms) : p.rooms[i].width <= 0 \/ p.rooms[i].depth <= 0
    \/ RowOneWidth(p) > p.plot_width

\* C10 as claimed: a request with an input error is rejected before layout
\* begins: it does not end in success and no room is assigned a position
C10_InputErrorRejected ==
    InputError(plan) =>
        /\ DOMAIN calc.pos = {}
        /\ outcome # "success"

\* ------------------------------------------------------------------------
\* Properties of the drawing
\* ------------------------------------------------------------------------
\* the two texts of the title block that carry the render id and the date
StampText(c) ==
    /\ c.op = "title_text"
    /\ Len(c.text) >= 1
    /\ c.text[1] \in {"DWG", "DATE"}

\* two scenes with the same calls, but for what the stamp texts say
SameButStamps(a, b) ==
    /\ Len(a) = Len(b)
    /\ \A i \in 1..Len(a) :
          \/ a[i] = b[i]
          \/ /\ StampText(a[i])
             /\ StampText(b[i])
             /\ a[i].text[1] = b[i].text[1]

\* C5 as claimed: a second invocation of the pipeline on the same input draws
\* the same scene as the first, title block included
C5_SameInputSameScene ==
    (call_no >= 2 /\ pc \in {"drawn", "done"}) => scene = prev.scene

\* C5 amended: a second invocation on the same input draws the same scene as
\* the first but for the drawing number and the date of the title block
C5_SameSceneButStamps ==
    (call_no >= 2 /\ pc \in {"drawn", "done"}) => SameButStamps(scene, prev.scene)

\* C5 witness: the second invocation has drawn three rooms and its title
\* block differs from the first one's
C5_Witness ==
    /\ call_no = 2
    /\ pc = "done"
    /\ Len(plan.rooms) = 3
    /\ scene # prev.scene
    /\ SameButStamps(scene, prev.scene)

\* ------------------------------------------------------------------------
\* Properties of the formatter
\* ------------------------------------------------------------------------
Formatted == pc = "formatter" /\ fmt_out # <<>>

\* C8: for a length f >= 0, F'-I" has 0 <= I <= 11 and 12 F + I is f in
\* inches rounded to the nearest inch; 10.5 ft gives 10'-6", 3.0 ft gives
\* 3'-0" and 2.9999 ft gives 3'-0"
C8_FeetInchesRounded ==
    Formatted =>
        /\ fmt_out[1] >= 0
        /\ 0 <= fmt_out[2] /\ fmt_out[2] <= 11
        /\ 2 * Abs((12 * fmt_out[1] + fmt_out[2]) * FeetDen - 12 * fmt_feet) <= FeetDen
        /\ 2 * fmt_feet = 21 * FeetDen => fmt_out = <<10, 6>>
        /\ fmt_feet = 3 * FeetDen => fmt_out = <<3, 0>>
        /\ 10000 * fmt_feet = 29999 * FeetDen => fmt_out = <<3, 0>>

\* C8 witness: a remainder that rounds to 12 inches has been carried
C8_Witness ==
    /\ Formatted
    /\ fmt_feet = 3 * FeetDen - 1
    /\ fmt_out = <<3, 0>>

\* ------------------------------------------------------------------------
\* Properties of the staircase
\* ------------------------------------------------------------------------
SetMax(S) == CHOOSE m \in S : \A n \in S : n <= m

\* the extent of a primitive along x and along y
ExtentX(prim) ==
    LET xs == {prim.pts[i][1] : i \in 1..Len(prim.pts)} IN SetMax(xs) - SetMin(xs)

ExtentY(prim) ==
    LET ys == {prim.pts[i][2] : i \in 1..Len(prim.pts)} IN SetMax(ys) - SetMin(ys)

StairDrawn == pc = "staircase" /\ stair_scene # <<>>

\* the primitives of an l-shaped staircase: the outline of the first flight,
\* its step lines, and the polyline emitted between the two flights
FirstFlight == stair_scene[1]

FlightStepLines ==
    {i \in 1..Len(stair_scene) :
        /\ stair_scene[i].kind = "line"
        /\ ExtentY(stair_scene[i]) = 0
        /\ ExtentX(stair_scene[i]) = staircase.width_feet}

Landing == stair_scene[Len(stair_scene) - 1]

\* the first flight of an l-shaped staircase has half of ceil(120 / riser)
\* steps over half of the run steps x tread / 12 ft
LFirstFlightHalved ==
    (StairDrawn /\ staircase.type = "l-shaped") =>
        LET steps == CeilDiv(Inch(120), staircase.riser_height_inches)
            run == steps * staircase.tread_width_inches
        IN  /\ FirstFlight.kind = "polyline"
            /\ ExtentX(FirstFlight) = staircase.width_feet
            /\ 2 * ExtentY(FirstFlight) = run
            /\ Cardinality(FlightStepLines) = steps \div 2 - 1
            /\ (staircase.riser_height_inches = Inch(7)
                  /\ staircase.tread_width_inches = Inch(10)) =>
                    steps = 18 /\ run = Feet(15)

\* the landing is a square whose side is the stair width
LLandingSquare ==
    (StairDrawn /\ staircase.type = "l-shaped") =>
        /\ Landing.kind = "polyline"
        /\ ExtentX(Landing) = staircase.width_feet
        /\ ExtentY(Landing) = staircase.width_feet

\* C9 as claimed: an l-shaped staircase has ceil(120 / riser) steps and a run
\* of steps x tread / 12 ft (18 steps and 15 ft for riser 7 in, tread 10 in),
\* its first flight has half the steps over half the run, and the landing
\* between the flights is a square whose side is the stair width
C9_LShapedStaircase == LFirstFlightHalved /\ LLandingSquare

\* ------------------------------------------------------------------------
\* Properties of the emitter
\* ------------------------------------------------------------------------
\* the call just made is an opening or furniture call
OpeningOrFurniture(c) == c.op \in {"add_door", "add_window", "add_room_furniture"}

\* C11: add_door, add_window and add_room_furniture called with a room id
\* that is not in room_positions return without adding a primitive and leave
\* room_positions unchanged
C11_UnknownRoomNoOp ==
    [][(/\ Len(cad_log') = Len(cad_log) + 1
        /\ OpeningOrFurniture(cad_log'[Len(cad_log')])
        /\ cad_log'[Len(cad_log')].room_id \notin DOMAIN room_positions)
       => (msp' = msp /\ room_positions' = room_positions)]_vars

\* C11 witness: after a room was drawn, a door, a window and furniture were
\* asked for rooms the emitter does not know, and the drawing holds the room
\* only
C11_Witness ==
    /\ pc = "emitter"
    /\ Len(cad_log) = 3
    /\ cad_log[1].op = "add_room_with_walls"
    /\ cad_log[2].op = "add_door"
    /\ cad_log[2].room_id \notin DOMAIN room_positions
    /\ cad_log[3].op = "add_room_furniture"
    /\ cad_log[3].room_id \notin DOMAIN room_positions
    /\ Len(msp) = 1

\* ------------------------------------------------------------------------
\* Dangling adjacency edges
\* ------------------------------------------------------------------------
\* the declarations <<i, j>> (the j-th of room i) that name no room
DanglingEdges(rooms) ==
    {ij \in (1..Len(rooms)) \X (1..2) :
        /\ ij[2] <= Len(rooms[ij[1]].adjacent_to)
        /\ rooms[ij[1]].adjacent_to[ij[2]] \notin RoomIds(rooms)}

\* the room list with the j-th declaration of room i removed
WithoutEdge(rooms, i, j) ==
    [rooms EXCEPT ![i].adjacent_to =
        SubSeq(rooms[i].adjacent_to, 1, j - 1)
        \o SubSeq(rooms[i].adjacent_to, j + 1, Len(rooms[i].adjacent_to))]

\* C12: an adjacency declaration that names no room of the input changes
\* nothing: the map returned is the one returned for the same input without
\* that declaration
C12_DanglingEdgeNoOp ==
    pc = "returned" =>
        \A ij \in DanglingEdges(plan.rooms) :
            positions =
                CalculatePositions(
                    NewCalculator(plan.plot_width, plan.plot_depth, plan.road_side),
                    WithoutEdge(plan.rooms, ij[1], ij[2])).pos

\* ------------------------------------------------------------------------
\* Properties of the placement routines (SpecPlace)
\* ------------------------------------------------------------------------
SubjectRoom == plan.rooms[subject]

\* the placed rooms, other than the subject, that overlap the rectangle of
\* the subject's size at pos
Overlapped(pos) ==
    { pid \in DOMAIN calc.pos \ {SubjectRoom.id} :
        LET o == plan.rooms[RoomById(plan.rooms, pid)]
        IN  RectsOverlap(pos[1], pos[2], SubjectRoom.width, SubjectRoom.depth,
                         calc.pos[pid][1], calc.pos[pid][2], o.width, o.depth) }

\* C13: when the fallback scan exhausts the plot, the room is put at the
\* origin whatever lies there and recorded as placed; nothing is raised, the
\* position map is complete, and the solver can go on with the room.
C13_ExhaustedScanPlacesAtOrigin ==
    pc = "origin" =>
        /\ SubjectRoom.id \in DOMAIN calc.pos
        /\ calc.pos[SubjectRoom.id] = <<0, 0>>
        /\ SubjectRoom.id \in DOMAIN calc.placed_rooms
        /\ calc.placed_rooms[SubjectRoom.id] = subject
        /\ DOMAIN calc.pos = RoomIds(plan.rooms)
        /\ ENABLED MoveAdjacent

\* the scan is exhausted and the origin is occupied by another room
C13_Witness ==
    /\ pc = "origin"
    /\ Overlapped(<<0, 0>>) # {}
    /\ calc.pos[SubjectRoom.id] = <<0, 0>>

\* the first placed room, in the order of the position map, overlapping the
\* subject's rectangle at pos
Colliding(pos) ==
    LET ks == { k \in 1..Len(calc.order) : calc.order[k] \in Overlapped(pos) }
    IN  calc.order[CHOOSE k \in ks : \A l \in ks : k <= l]

FarEdge(pid) == calc.pos[pid][1] + plan.rooms[RoomById(plan.rooms, pid)].width

\* the scan as described: in a row, x starts at 0 and on a collision goes to
\* the far edge of the colliding room, which is the next candidate tested
RECURSIVE DescribedRow(_, _)
DescribedRow(x, y) ==
    IF x + SubjectRoom.width > calc.plot_width THEN None
    ELSE IF Overlapped(<<x, y>>) = {} THEN <<x, y>>
    ELSE DescribedRow(FarEdge(Colliding(<<x, y>>)), y)

RECURSIVE DescribedScan(_)
DescribedScan(y) ==
    IF y + SubjectRoom.depth > calc.plot_depth THEN <<0, 0>>
    ELSE IF DescribedRow(0, y) # None THEN DescribedRow(0, y)
    ELSE DescribedScan(y + Max(Ft(1), SubjectRoom.depth \div 2))

\* C16: the fallback scan goes row by row, in a row from x = 0, jumping on a
\* collision to the colliding room's far edge and testing that position, and
\* takes the first candidate inside the plot that overlaps nothing; the
\* origin is used only when there is none.
C16_ScanTestsFarEdge ==
    pc \in {"placed", "origin"} => calc.pos[SubjectRoom.id] = DescribedScan(0)

\* the touching positions of the subject around a placed anchor: East, West,
\* North, South
Touching(anchor_id) ==
    LET a == plan.rooms[RoomById(plan.rooms, anchor_id)]
        ax == calc.pos[anchor_id][1]
        ay == calc.pos[anchor_id][2]
    IN  << <<ax + a.width, ay>>, <<ax - SubjectRoom.width, ay>>,
           <<ax, ay + a.depth>>, <<ax, ay - SubjectRoom.depth>> >>

SubjectFits(pos) ==
    /\ pos[1] >= 0
    /\ pos[2] >= 0
    /\ pos[1] + SubjectRoom.width <= plan.plot_width
    /\ pos[2] + SubjectRoom.depth <= plan.plot_depth
    /\ Overlapped(pos) = {}

FirstTouching(anchor_id) ==
    LET ks == { k \in 1..4 : SubjectFits(Touching(anchor_id)[k]) }
    IN  IF ks = {} THEN None
        ELSE Touching(anchor_id)[CHOOSE k \in ks : \A l \in ks : k <= l]

\* C17: both adjacency searches return the first of the East, West, North,
\* South touching positions that lies in the plot and overlaps no placed
\* room other than the room being placed, and none when no side qualifies.
C17_FirstTouchingSide ==
    adj_out.op # "none" => adj_out.found = FirstTouching(adj_out.anchor)

\* a search that had to pass over the East side, and one that found no side
C17_Witness ==
    /\ adj_out.op = "_find_adjacent_position_for"
    /\ adj_out.found # None
    /\ adj_out.found # Touching(adj_out.anchor)[1]
    /\ pc = "scanning"

C17_WitnessMove ==
    /\ adj_out.op = "_find_adjacent_position"
    /\ adj_out.found = Touching(adj_out.anchor)[4]

C17_WitnessNone ==
    /\ adj_out.op # "none"
    /\ adj_out.found = None

\* ------------------------------------------------------------------------
\* Properties of requests served at the same time (SpecServer)
\* ------------------------------------------------------------------------
\* the response of a request processed alone: the file it reads back holds
\* the wireframe it wrote
ResponseAlone(q) ==
    LET ai == IF q.ai_render THEN <<"render", q.prompt, q.scene>> ELSE None
    IN  [dxf_path |-> q.dxf_path,
         positions |-> q.positions,
         wireframe |-> <<"png", q.scene>>,
         ai_rendered |-> ai,
         ai_enhanced |-> ai # None]

\* C15: no mutable state is shared across requests: under every interleaving
\* of two requests each one answers as it does when it is processed alone.
C15_RequestsIndependent ==
    \A r \in Requests :
        req[r].step = "done" => req[r].response = ResponseAlone(req[r])

\* ------------------------------------------------------------------------
\* Termination of the solver (SpecTerm)
\* ------------------------------------------------------------------------
\* C14: calculate_positions runs to completion: a fallback scan ends with
\* the room placed and the enforcement pass ends with the map returned; every
\* iteration of the scan advances x or y, and every iteration of the
\* enforcement pass goes to a later neighbour or a later room.
C14_SolverTerminates ==
    /\ (pc = "enforce") ~> (pc = "returned")
    /\ (pc = "scanning") ~> (pc \in {"placed", "origin"})
    /\ [][(pc = "scanning" /\ pc' = "scanning") =>
             \/ scan'[2] > scan[2]
             \/ scan'[2] = scan[2] /\ scan'[1] > scan[1]]_vars
    /\ [][(pc = "enforce" /\ pc' = "enforce") =>
             \/ ei' > ei
             \/ ei' = ei /\ ej' > ej]_vars

\* a scan that went through every row of the plot
C14_Witness ==
    /\ pc = "origin"
    /\ scan[2] + SubjectRoom.depth > plan.plot_depth
    /\ scan[2] > 0

\* an enforcement pass that ran over three rooms and moved one
C14_WitnessEnforced ==
    /\ pc = "returned"
    /\ Len(room_ids) >= 3
    /\ positions # PlaceRooms(NewCalculator(plan.plot_width, plan.plot_depth,
                                            plan.road_side), plan.rooms).pos

\* ------------------------------------------------------------------------
\* Properties of the placement stage (Spec, at the step that runs it)
\* ------------------------------------------------------------------------
Tallest(S) == SetMax({0} \cup {plan.rooms[i].depth : i \in S})

FitsAfter(x, ri) == ri # 0 /\ x + plan.rooms[ri].width <= plan.plot_width

\* the rooms placed in row 1: verandah and living room, and the dining room
\* when it fits after them
Row1Placed ==
    LET verandah == FindVerandah(plan.rooms)
        living == FindLiving(plan.rooms)
        dining == FindRoomByType(plan.rooms, "dining")
        x == (IF verandah # 0 THEN plan.rooms[verandah].width ELSE 0)
             + (IF living # 0 THEN plan.rooms[living].width ELSE 0)
    IN  ({verandah, living} \ {0}) \cup (IF FitsAfter(x, dining) THEN {dining} ELSE {})

\* the rooms placed in row 2: the dining room left over from row 1, the
\* kitchen, and the toilet and the staircase when they fit after them
Row2Placed ==
    LET dining == FindRoomByType(plan.rooms, "dining")
        kitchen == FindRoomByType(plan.rooms, "kitchen")
        toilet == FindToilet(plan.rooms)
        staircase_room == FindRoomByType(plan.rooms, "staircase")
        first == ({dining} \ Row1Placed) \ {0}
        x1 == (IF first # {} THEN plan.rooms[dining].width ELSE 0)
              + (IF kitchen # 0 THEN plan.rooms[kitchen].width ELSE 0)
        x2 == x1 + (IF FitsAfter(x1, toilet) THEN plan.rooms[toilet].width ELSE 0)
    IN  first \cup ({kitchen} \ {0})
          \cup (IF FitsAfter(x1, toilet) THEN {toilet} ELSE {})
          \cup (IF FitsAfter(x2, staircase_room) THEN {staircase_room} ELSE {})

RowsStacked(pos) ==
    /\ \A i \in Row1Placed : pos[plan.rooms[i].id][2] = 0
    /\ \A i \in Row2Placed : pos[plan.rooms[i].id][2] = Tallest(Row1Placed)
    /\ FindBedroom(plan.rooms) # 0 =>
          pos[plan.rooms[FindBedroom(plan.rooms)].id][2]
              = Tallest(Row1Placed) + Tallest(Row2Placed)

\* C18: in standard mode row 2 starts at the depth of the tallest room placed
\* in row 1 and row 3 that much plus the depth of the tallest room placed in
\* row 2; a room that did not fit in its row does not count.
C18_RowHeightFromPlacedRooms ==
    [][(pc = "validated" /\ pc' = "enforce" /\ FindCourtyard(plan.rooms) = 0)
          => RowsStacked(calc'.pos)]_vars

\* the steps of the courtyard-mode chain whose anchor is present: the room
\* placed and the room it is placed next to, as indexes of plan.rooms
ChainSteps ==
    LET rooms == plan.rooms
        living == FindLiving(rooms)
        dining == FindRoomByType(rooms, "dining")
        kitchen == FindRoomByType(rooms, "kitchen")
    IN  { st \in { <<living, FindVerandah(rooms)>>,
                   <<dining, living>>,
                   <<kitchen, dining>>,
                   <<FindBedroom(rooms), living>>,
                   <<FindToilet(rooms), kitchen>>,
                   <<FindRoomByType(rooms, "staircase"), living>> } :
            st[1] # 0 /\ st[2] # 0 }

RoomFitsAt(ri, at) ==
    /\ at[1] >= 0
    /\ at[2] >= 0
    /\ at[1] + plan.rooms[ri].width <= plan.plot_width
    /\ at[2] + plan.rooms[ri].depth <= plan.plot_depth

\* right of the anchor, then below it, otherwise at neither of the two
RightThenBelow(pos, ri, xi) ==
    LET x == plan.rooms[xi]
        at == pos[x.id]
        right == <<at[1] + x.width, at[2]>>
        below == <<at[1], at[2] + x.depth>>
        got == pos[plan.rooms[ri].id]
    IN  IF RoomFitsAt(ri, right) THEN got = right
        ELSE IF RoomFitsAt(ri, below) THEN got = below
        ELSE got \notin {right, below}

\* C19: in courtyard mode every step of the chain that places a room next to
\* a room X takes the position right of X when the room fits there, else the
\* position below X when it fits there, and otherwise leaves both to the
\* fallback scan.
C19_RightThenBelowThenScan ==
    [][(pc = "validated" /\ pc' = "enforce" /\ FindCourtyard(plan.rooms) # 0)
          => \A st \in ChainSteps : RightThenBelow(calc'.pos, st[1], st[2])]_vars

\* the two places of the living room beside the verandah
EastOfVerandah(pos) ==
    LET v == plan.rooms[FindVerandah(plan.rooms)]
    IN  <<pos[v.id][1] + v.width, pos[v.id][2]>>

FarSideOfVerandah(pos) ==
    LET v == plan.rooms[FindVerandah(plan.rooms)]
    IN  <<pos[v.id][1], pos[v.id][2] + v.depth>>

LivingBesideVerandah(pos) ==
    LET living == FindLiving(plan.rooms)
        got == pos[plan.rooms[living].id]
    IN  /\ got \in {EastOfVerandah(pos), FarSideOfVerandah(pos)}
        /\ (\/ RoomFitsAt(living, EastOfVerandah(pos))
            \/ RoomFitsAt(living, FarSideOfVerandah(pos)))
              => RoomFitsAt(living, got)

\* C20: in courtyard mode with a verandah the living room touches the
\* verandah, east of it or on its far side in y, and is inside the plot
\* whenever one of the two places is.
C20_LivingBesideVerandahInPlot ==
    [][(/\ pc = "validated" /\ pc' = "enforce"
        /\ FindCourtyard(plan.rooms) # 0
        /\ FindVerandah(plan.rooms) # 0
        /\ FindLiving(plan.rooms) # 0)
          => LivingBesideVerandah(calc'.pos)]_vars

\* ------------------------------------------------------------------------
\* Properties of the enforcement pass (Spec, at its steps)
\* ------------------------------------------------------------------------
\* the room the pass is visiting and the neighbour its next step handles
VisitedId == room_ids[ei]

NeighbourId == GraphGet(adjacency_graph, VisitedId)[ej]

\* the step of the pass for the pair (VisitedId, NeighbourId)
PassStep == pc = "enforce" /\ pc' = "enforce" /\ ei <= Len(room_ids)

ShareWall(pos, a, b) ==
    RoomsShareWall(pos[a][1], pos[a][2], RoomOfId(a).width, RoomOfId(a).depth,
                   pos[b][1], pos[b][2], RoomOfId(b).width, RoomOfId(b).depth)

\* the places where room b touches room a on its East, West, North, South
TouchingPlaces(pos, a, b) ==
    { <<pos[a][1] + RoomOfId(a).width, pos[a][2]>>,
      <<pos[a][1] - RoomOfId(b).width, pos[a][2]>>,
      <<pos[a][1], pos[a][2] + RoomOfId(a).depth>>,
      <<pos[a][1], pos[a][2] - RoomOfId(b).depth>> }

\* room b at the place at is in the plot and clear of every room but a
FreePlace(pos, a, b, at) ==
    /\ at[1] >= 0
    /\ at[2] >= 0
    /\ at[1] + RoomOfId(b).width <= plan.plot_width
    /\ at[2] + RoomOfId(b).depth <= plan.plot_depth
    /\ \A o \in DOMAIN pos \ {a, b} :
          ~RectsOverlap(at[1], at[2], RoomOfId(b).width, RoomOfId(b).depth,
                        pos[o][1], pos[o][2], RoomOfId(o).width, RoomOfId(o).depth)

NoFreeTouchingPlace(pos, a, b) ==
    \A at \in TouchingPlaces(pos, a, b) : ~FreePlace(pos, a, b, at)

\* the pairs of the graph whose two rooms are placed and share no wall
ApartPairs(pos) ==
    { ab \in (DOMAIN pos) \X (DOMAIN pos) :
        /\ InSeq(ab[2], GraphGet(adjacency_graph, ab[1]))
        /\ ~ShareWall(pos, ab[1], ab[2]) }

\* C21: a step of the pass whose neighbour shares no wall with the visited
\* room and has no touching place in the plot clear of the other rooms
\* leaves every position as it was.
C21_NoPlaceNoMove ==
    [][(/\ PassStep
        /\ NeighbourId \in DOMAIN calc.pos
        /\ ~ShareWall(calc.pos, VisitedId, NeighbourId)
        /\ NoFreeTouchingPlace(calc.pos, VisitedId, NeighbourId))
          => calc'.pos = calc.pos]_vars

\* the pass is over and has moved nothing, although a neighbour without any
\* free touching place is apart from its room
C21_Witness ==
    /\ pc = "enforce"
    /\ ei > Len(room_ids)
    /\ calc.pos = PlaceRooms(calc, plan.rooms).pos
    /\ \E ab \in ApartPairs(calc.pos) :
          ab[1] # ab[2] /\ NoFreeTouchingPlace(calc.pos, ab[1], ab[2])

\* the neighbours of a room in the symmetrized graph: the ids it declares
\* and the ids of the rooms that declare it
NeighboursOf(id) ==
    {b \in RoomIds(plan.rooms) : InSeq(id, RoomOfId(b).adjacent_to)}
        \cup (IF id \in RoomIds(plan.rooms)
              THEN {RoomOfId(id).adjacent_to[k] : k \in 1..Len(RoomOfId(id).adjacent_to)}
              ELSE {})

GraphDegree(id) == Cardinality(NeighboursOf(id))

\* C22: the pass visits the rooms by descending degree in the symmetrized
\* graph, a room before every room of smaller degree and rooms of equal
\* degree in input order; the visits go forward through that order.
C22_VisitByDescendingDegree ==
    /\ [](pc = "enforce" =>
            /\ Len(room_ids) = Len(plan.rooms)
            /\ \A a, b \in 1..Len(room_ids) : a < b =>
                  \/ GraphDegree(room_ids[a]) > GraphDegree(room_ids[b])
                  \/ /\ GraphDegree(room_ids[a]) = GraphDegree(room_ids[b])
                     /\ RoomById(plan.rooms, room_ids[a]) < RoomById(plan.rooms, room_ids[b]))
    /\ [][PassStep => ei' >= ei]_vars

\* the visit of the second room of a list that the sort had to reorder and
\* that holds two rooms of equal degree
C22_Witness ==
    /\ pc = "enforce"
    /\ ei = 2
    /\ room_ids[1] # plan.rooms[1].id
    /\ \E a, b \in 1..Len(room_ids) :
          a # b /\ GraphDegree(room_ids[a]) = GraphDegree(room_ids[b])

\* how many times id b stands in the neighbour list of a
Mentions(list, b) == Cardinality({k \in 1..Len(list) : list[k] = b})

Declares(a, b) == a \in RoomIds(plan.rooms) /\ InSeq(b, RoomOfId(a).adjacent_to)

\* C23: for rooms with unique ids the graph is undirected and holds every
\* declared edge: b is a neighbour of a exactly when a is one of b, and the
\* reverse of a declared edge is added only when it is not there already.
C23_GraphUndirected ==
    pc = "enforce" =>
        /\ \A a, b \in DOMAIN adjacency_graph :
              InSeq(b, adjacency_graph[a]) <=> InSeq(a, adjacency_graph[b])
        /\ \A a \in RoomIds(plan.rooms) :
              /\ a \in DOMAIN adjacency_graph
              /\ \A b \in NeighboursOf(a) :
                    /\ b \in DOMAIN adjacency_graph
                    /\ InSeq(b, adjacency_graph[a])
        /\ \A a \in DOMAIN adjacency_graph :
              \A b \in DOMAIN adjacency_graph :
                 Mentions(adjacency_graph[a], b)
                    = IF Declares(a, b) THEN Mentions(RoomOfId(a).adjacent_to, b)
                      ELSE IF Declares(b, a) THEN 1 ELSE 0

\* a graph built from an edge declared on both sides and an edge declared on
\* one side only
C23_Witness ==
    /\ pc = "enforce"
    /\ \E a, b \in RoomIds(plan.rooms) :
          a # b /\ Declares(a, b) /\ Declares(b, a)
    /\ \E a, b \in RoomIds(plan.rooms) :
          a # b /\ Declares(a, b) /\ ~Declares(b, a)

\* no two rooms of the map overlap and every room lies in the plot
CleanLayout(pos) ==
    /\ \A a \in DOMAIN pos : FreePlace(pos, a, a, pos[a])
    /\ DOMAIN pos \subseteq RoomIds(plan.rooms)

\* the map the placement stage handed to the pass
PlacedMap == PlaceRooms(calc, plan.rooms).pos

\* C24: the pass never introduces an overlap: when the placement stage left
\* no two rooms overlapping and all of them in the plot, the same is true
\* after every step of the pass.
C24_PassKeepsLayoutClean ==
    pc = "enforce" => (CleanLayout(calc.pos) \/ ~CleanLayout(PlacedMap))

\* a pass that received a clean layout and has moved a room
C24_Witness ==
    /\ pc = "enforce"
    /\ CleanLayout(PlacedMap)
    /\ calc.pos # PlacedMap
    /\ Len(plan.rooms) = 3

\* C25: whenever a step of the pass moves a neighbour, the neighbour shares
\* a wall with the visited room right after the move.
C25_MovedNeighbourSharesWall ==
    [][(PassStep /\ calc'.pos # calc.pos)
          => ShareWall(calc'.pos, VisitedId, NeighbourId)]_vars

\* the declarations <<i, j>> (the j-th of room i) that name room i itself
SelfEdges(rooms) ==
    {ij \in (1..Len(rooms)) \X (1..2) :
        /\ ij[2] <= Len(rooms[ij[1]].adjacent_to)
        /\ rooms[ij[1]].adjacent_to[ij[2]] = rooms[ij[1]].id}

\* C26: a room that lists its own id in adjacent_to is placed as if it did
\* not: the map returned is the one returned for the same input without the
\* self-reference.
C26_SelfEdgeNoEffect ==
    pc = "returned" =>
        \A ij \in SelfEdges(plan.rooms) :
            positions =
                CalculatePositions(
                    NewCalculator(plan.plot_width, plan.plot_depth, plan.road_side),
                    WithoutEdge(plan.rooms, ij[1], ij[2])).pos

C28_AcceptedScanPositionFree ==
    pc = "placed" =>
        /\ SubjectRoom.id \in DOMAIN calc.pos
        /\ calc.pos[SubjectRoom.id] = scan
        /\ InPlot(calc, scan[1], scan[2], SubjectRoom.width, SubjectRoom.depth)
        /\ Overlapped(scan) = {}

\* the scan accepted a position after it had to step over placed rooms
C28_Witness ==
    /\ pc = "placed"
    /\ scan[1] > 0
    /\ scan[2] > 0
    /\ Cardinality(DOMAIN calc.pos) = 3

\* C29: calculate_positions starts from an empty state: whatever calls the
\* instance has served, the map it returns is the one a fresh instance with
\* the same plot and road side returns for the same room list, and during
\* the call no position of an earlier call is in the map.
C29_ResultOfFreshInstance ==
    /\ pc = "returned" =>
          positions =
              CalculatePositions(
                  NewCalculator(plan.plot_width, plan.plot_depth, plan.road_side),
                  plan.rooms).pos
    /\ pc \in {"enforce", "returned"} =>
          /\ DOMAIN calc.pos \subseteq RoomIds(plan.rooms)
          /\ calc.plot_width = plan.plot_width
          /\ calc.plot_depth = plan.plot_depth
          /\ calc.road_side = plan.road_side

\* a later call is about to return on an instance whose earlier call had
\* placed a room that is not in the later list and had put a room of the
\* later list somewhere else
C29_Witness ==
    /\ pc = "enforce"
    /\ ei > Len(room_ids)
    /\ call_no > 1
    /\ DOMAIN positions \ RoomIds(plan.rooms) # {}
    /\ \E id \in DOMAIN positions \cap DOMAIN calc.pos : positions[id] # calc.pos[id]

\* C30: whenever a collision check runs, in the fallback scan, in the
\* adjacency-directed placement or in the pass, every id that has a position
\* has an entry in placed_rooms, so the check skips no positioned room; when
\* the solver returns, positions and placed_rooms both have exactly the ids
\* of the input rooms as keys.
C30_PositionedRoomsAreRecorded ==
    /\ pc \in {"scanning", "enforce"} =>
          /\ DOMAIN calc.pos \subseteq DOMAIN calc.placed_rooms
          /\ \A id \in DOMAIN calc.pos :
                calc.placed_rooms[id] = RoomById(plan.rooms, id)
    /\ pc = "returned" =>
          /\ DOMAIN positions = RoomIds(plan.rooms)
          /\ DOMAIN calc.placed_rooms = RoomIds(plan.rooms)

\* the fallback scan tests a cell beyond placed rooms it has stepped over,
\* one of them placed by an earlier scan of the same call
C30_Witness ==
    /\ pc = "scanning"
    /\ scan[1] > 0
    /\ Cardinality(DOMAIN calc.pos) >= 2
    /\ \E id \in DOMAIN calc.pos :
          plan.rooms[RoomById(plan.rooms, id)].type \in {"pooja", "store", "courtyard"}

====
